---- MODULE Spec2Model ----
(***************************************************************************)
(* Model of the i2i Teaming Tool library: the Projects sheet (the store),  *)
(* the automation_status dropdown validation, the script lock, and the     *)
(* three locked entry points of Main.js (processNewProjects,               *)
(* runDailyMaintenance, handleFormSubmission) with the row processing of   *)
(* ProjectService.                                                         *)
(***************************************************************************)
EXTENDS Integers, FiniteSets, Sequences, TLC

\* ------------------------------------------------------------------ bounds
\* Number of data rows the Projects sheet can hold in the model.
MaxRows == 2
\* Number of provider calls (Drive, Calendar, Gmail) that fail over a run of the
\* system.
MaxFailures == 1
\* Number of things people do (rows typed into the Projects sheet, dropdown
\* values picked, the dropdown refresh run from the menu, forms submitted).
MaxEdits == 3
\* The last tick of the clock: every edit of a project_status cell and every
\* day that passes is one tick.
MaxClock == 3

\* ------------------------------------------------------- program constants
\* ProjectSheet.headerRowCount: row 1 holds labels, row 2 the column keys.
headerRowCount == 2

Rows == (headerRowCount + 1)..(headerRowCount + MaxRows)

\* AUTOMATION_STATUS (Constants.js)
BLANK == ""
READY == "Ready"
CREATED == "Created"
UPDATED == "Updated"
DELETE_NOTIFY == "Delete (Notify)"
DELETE_NO_NOTIFY == "Delete (Don't Notify)"
DELETED == "Deleted"
ERROR == "Error"

AUTOMATION_STATUS ==
  {BLANK, READY, CREATED, UPDATED, DELETE_NOTIFY, DELETE_NO_NOTIFY, DELETED, ERROR}

\* The entry points that take the script lock.
Invs == {"batch", "maint", "intake"}

\* project_id cell: NoId is the empty cell, otherwise <<district, year, serial>>.
NoId == <<>>
\* An id typed into the sheet by hand (a row carried over from an earlier year).
ManualId == <<"NUSD", "24_25", 7>>

\* A row of the sheet that holds no project.
EmptyRow ==
  [filled |-> FALSE, status |-> BLANK, id |-> NoId, folderId |-> 0, fileId |-> 0,
   eventId |-> 0, valid |-> FALSE, rem |-> FALSE, hidden |-> FALSE]

\* The columns the processors write.
Fields == {"status", "id", "folderId", "fileId", "eventId"}

VARIABLES
  store,      \* Projects sheet: row number -> row
  guard,      \* data validation rule of each automation_status cell
  config,     \* Config sheet
  lock,       \* the script lock: its holder, or "free"
  pc,         \* position of each entry point's invocation
  mem,        \* ExecutionContext of each invocation: the loaded Project objects
  sentNew,    \* rows whose "new project" email was sent in the current invocation
  nFolders,   \* folders created at Drive, per row
  nFiles,     \* template copies created at Drive, per row
  nEvents,    \* calendar events created, per row
  nMails,     \* "new project" emails sent, per row
  unlockedAccess, \* an entry point touched the Projects sheet without holding the lock
  failures,   \* provider calls that have failed so far
  edits,      \* things people have done so far
  deleteAsked, \* rows a person has set to a delete request so far
  arg,        \* a helper called on its own: the helper and its arguments
  ret,        \* what that call returned
  tracking,   \* project_status and completed_at of each row of the Projects sheet
  snapshotSheet, \* the data rows of the Status Snapshot sheet
  digested,   \* the status changes the digests delivered, per recipient, that the
              \* project's status was not edited after, and whether every
              \* sweep from the one that sent them on ran to its end
  now,        \* the clock
  outbox      \* the last whole run of an entry point: the rows it handled, the
              \* projects its reminders and its status digest were about

vars == <<store, guard, config, lock, pc, mem, sentNew, nFolders, nFiles,
          nEvents, nMails, unlockedAccess, failures, edits, deleteAsked, arg, ret, tracking, snapshotSheet, digested, now, outbox>>

\* No helper is being called on its own.
NoCall == [fn |-> "none"]

\* A call that has not returned yet.
NotReturned == [pending |-> TRUE]

\* ------------------------------------------------------------ ValidationService
\* A variant of getAllowedStatusValues that offers an Error row the retry value
\* alone, dropping the row's current value from the list.
getAllowedStatusValuesRetryOnly(currentStatus) ==
  CASE currentStatus = BLANK -> {READY}
    [] currentStatus = CREATED -> {CREATED, UPDATED, DELETE_NOTIFY, DELETE_NO_NOTIFY}
    [] currentStatus = ERROR -> {READY}
    [] OTHER -> {currentStatus}

\* ValidationService.getAllowedStatusValues: the values the dropdown of a row
\* in state currentStatus accepts.
getAllowedStatusValues(currentStatus) ==
  CASE currentStatus = BLANK -> {READY}
    [] currentStatus = CREATED -> {CREATED, UPDATED, DELETE_NOTIFY, DELETE_NO_NOTIFY}
    [] currentStatus = ERROR -> {ERROR, READY}
    [] currentStatus = READY -> {READY}
    [] currentStatus = UPDATED -> {UPDATED}
    [] currentStatus \in {DELETE_NOTIFY, DELETE_NO_NOTIFY} -> {currentStatus}
    [] currentStatus = DELETED -> {DELETED}
    [] OTHER -> {currentStatus}

\* ------------------------------------------------------------ Config / IdAllocator
\* Config has no schoolYear accessor: this.config.schoolYear is undefined.
Config_schoolYear(cfg) == ""

\* Config.nextSerial: parseInt(value, 10) || 1
Config_nextSerial(cfg) == IF cfg.nextSerial = 0 THEN 1 ELSE cfg.nextSerial

\* Config.getAndIncrementSerial: returns the current serial and writes serial + 1
\* to the Config sheet (SpreadsheetApp.flush() makes the write visible at once).
getAndIncrementSerial(cfg) ==
  [serial |-> Config_nextSerial(cfg),
   cfg |-> [cfg EXCEPT !.nextSerial = Config_nextSerial(cfg) + 1]]

\* String(num): the decimal digits of a number.
RECURSIVE Digits(_)
Digits(num) == IF num < 10 THEN <<num>> ELSE Append(Digits(num \div 10), num % 10)

\* padNumber: String(num).padStart(length, '0'), as a sequence of digits.
padNumber(num, length) ==
  LET d == Digits(num)
  IN IF Len(d) >= length THEN d ELSE [k \in 1..(length - Len(d)) |-> 0] \o d

\* No deadline in the row, and the school year inferred from none.
NoDate == [year |-> 0, month |-> 0]
NoSchoolYear == <<>>

\* inferSchoolYear: "YY_YY" from the deadline's year and month and the month
\* the school year starts in, as the pair of its two-digit halves.
inferSchoolYear(deadline, startMonth) ==
  IF deadline = NoDate THEN NoSchoolYear
  ELSE IF deadline.month >= startMonth
  THEN <<padNumber(deadline.year % 100, 2), padNumber((deadline.year + 1) % 100, 2)>>
  ELSE <<padNumber((deadline.year - 1) % 100, 2), padNumber(deadline.year % 100, 2)>>

\* An allocator that checks nothing before it takes a serial.
IdAllocator_nextUnchecked(cfg) ==
  LET s == getAndIncrementSerial(cfg)
  IN [threw |-> FALSE, id |-> <<cfg.districtId, Config_schoolYear(cfg), padNumber(s.serial, 4)>>,
      cfg |-> s.cfg]

\* IdAllocator.next: throws when the district id or the school year is not
\* configured; otherwise formats district-schoolYear-serial.
IdAllocator_next(cfg) ==
  IF cfg.districtId = "" \/ Config_schoolYear(cfg) = ""
  THEN [threw |-> TRUE, id |-> NoId, cfg |-> cfg]
  ELSE LET s == getAndIncrementSerial(cfg)
       IN [threw |-> FALSE, id |-> <<cfg.districtId, Config_schoolYear(cfg), padNumber(s.serial, 4)>>,
           cfg |-> s.cfg]

\* ------------------------------------------------------------ ProjectService
\* Where a provider call of one row's handling can fail: creating the folder,
\* copying the template, sharing the folder, a calendar call, or preparing and
\* sending the row's own notification; "absent" is the calendar answering
\* getEventById with null because the event is gone, which is no failure.
Faults == {"none", "folder", "copy", "share", "calendar", "notify", "absent"}

\* The provider calls that fail in one row's handling: the faulty step, and the
\* mail service when it is down.
Failing(fault, mailDown) ==
  (IF fault \in {"none", "absent"} THEN 0 ELSE 1) + (IF mailDown THEN 1 ELSE 0)

\* The running state of processReadyProject: the Project object, the Config
\* sheet, the provider's per-row counts, whether the "new project" email went
\* out, whether an exception is propagating, and what has been done so far, in
\* the order it was done.
Start(p, cfg, n) ==
  [row |-> p, cfg |-> cfg, n |-> n, mailed |-> FALSE, error |-> FALSE, log |-> <<>>]

\* One more thing done.
Did(st, what) == [st EXCEPT !.log = Append(@, what)]

Raise(st) == [st EXCEPT !.error = TRUE]

\* ProjectService.validateProjectData failed: status Error and an error
\* notification, which throws when the mail cannot be sent.
ValidationFailed(st, mailDown) ==
  LET s1 == Did([st EXCEPT !.row.status = ERROR], "Error")
  IN IF mailDown THEN Raise(s1) ELSE Did(s1, "report")

\* Steps "Check if project already has an ID" .. idAllocator.next(schoolYear).
MintId(st) ==
  IF st.row.id # NoId THEN st
  ELSE LET a == IdAllocator_next(st.cfg)
       IN IF a.threw THEN Raise(st)
          ELSE Did([st EXCEPT !.row.id = a.id, !.cfg = a.cfg], "id")

\* A variant of the folder step without the idempotent check.
EnsureFolderUnchecked(st, fault) ==
  IF st.error THEN st
  ELSE IF fault = "folder" THEN Raise(st)
  ELSE Did([st EXCEPT !.n.folders = @ + 1, !.row.folderId = st.n.folders + 1], "folder")

\* "Create project folder (idempotent check)" with createProjectFolder.
EnsureFolder(st, fault) ==
  IF st.error \/ st.row.folderId # 0 THEN st
  ELSE IF fault = "folder" THEN Raise(st)
  ELSE Did([st EXCEPT !.n.folders = @ + 1, !.row.folderId = st.n.folders + 1], "folder")

\* "Copy template(s) into folder (idempotent check)" with copyTemplateToFolder:
\* no copy and no error when no template is configured; updateProjectFile
\* swallows its errors.
EnsureFile(st, fault) ==
  IF st.error \/ st.row.fileId # 0 \/ ~st.cfg.projectTemplateId THEN st
  ELSE IF fault = "copy" THEN Raise(st)
  ELSE Did([st EXCEPT !.n.files = @ + 1, !.row.fileId = st.n.files + 1], "file")

\* shareProjectFolder: sharing problems are collected and reported by an error
\* notification; only that notification can throw.
ShareFolder(st, fault, mailDown) ==
  IF st.error THEN st
  ELSE IF fault = "share" THEN (IF mailDown THEN Raise(st) ELSE Did(st, "report"))
  ELSE Did(st, "share")

\* "Create calendar event (idempotent check)": updateCalendarEvent on an
\* existing event rethrows, createCalendarEvent throws when the provider fails.
EnsureEvent(st, fault) ==
  IF st.error THEN st
  ELSE IF fault = "calendar" THEN Raise(st)
  ELSE IF st.row.eventId # 0 THEN st
  ELSE Did([st EXCEPT !.n.events = @ + 1, !.row.eventId = st.n.events + 1], "event")

\* "Set default reminder timelines if not already specified": Project has a
\* reminderOffsets getter and no setter, and getDefaultReminderLabels() is never
\* empty, so the assignment throws a TypeError for a row without offsets.
DefaultReminders(st) ==
  IF ~st.error /\ ~st.row.rem THEN Raise(st) ELSE st

\* setAutomationStatus(project, CREATED)
MarkCreated(st) ==
  IF st.error THEN st ELSE Did([st EXCEPT !.row.status = CREATED], "Created")

\* A variant of isFullRetry that looks at the project id alone (isResume).
isResume(p) == p.id # NoId

\* initialState ... isFullRetry
isFullRetry(p) == p.id # NoId /\ p.folderId # 0 /\ p.fileId # 0 /\ p.eventId # 0

\* NotificationService.sendNewProjectEmail: returns without sending when no
\* template is configured; throws when preparing or sending fails.
sendNewProjectEmail(st, fault, mailDown) ==
  IF ~st.cfg.emailTemplateNewProject THEN st
  ELSE IF fault = "notify" \/ mailDown THEN Raise(st)
  ELSE Did([st EXCEPT !.mailed = TRUE, !.n.mails = @ + 1], "email")

\* "Determine notification logic"
NotifyNew(st, p, fault, mailDown) ==
  IF st.error \/ isFullRetry(p) THEN st ELSE sendNewProjectEmail(st, fault, mailDown)

\* A processReadyProject that validates the row after it has an id.
processReadyProjectLateCheck(p, cfg, n, fault, mailDown) ==
  LET s1 == MintId(Start(p, cfg, n))
  IN IF s1.error THEN s1 ELSE ValidationFailed(s1, mailDown)

\* ProjectService.processReadyProject
processReadyProject(p, cfg, n, fault, mailDown) ==
  IF ~p.valid THEN ValidationFailed(Start(p, cfg, n), mailDown)
  ELSE NotifyNew(
         MarkCreated(
           DefaultReminders(
             EnsureEvent(
               ShareFolder(
                 EnsureFile(
                   EnsureFolder(MintId(Start(p, cfg, n)), fault),
                   fault),
                 fault, mailDown),
               fault))),
         p, fault, mailDown)

\* The catch block of processReadyProjects / processUpdatedProjects /
\* processDeleteRequests: status Error, then an error notification whose
\* failure leaves the loop (threw).
CatchRow(st, mailDown) ==
  IF st.error
  THEN [row |-> [st.row EXCEPT !.status = ERROR], cfg |-> st.cfg, n |-> st.n,
        mailed |-> st.mailed, threw |-> mailDown]
  ELSE [row |-> st.row, cfg |-> st.cfg, n |-> st.n, mailed |-> st.mailed, threw |-> FALSE]

\* ProjectService.processUpdatedProject
processUpdatedProject(p, cfg, n, fault, mailDown) ==
  LET s0 == Start(p, cfg, n)
      s1 == IF p.eventId # 0 /\ fault = "calendar" THEN Raise(s0) ELSE s0
      s2 == ShareFolder(s1, fault, mailDown)
      s3 == MarkCreated(s2)
  IN IF ~s3.error /\ (fault = "notify" \/ mailDown) THEN Raise(s3) ELSE s3

\* A cancelCalendarEvent that throws when the event is not found.
cancelCalendarEventStrict(st, fault) ==
  IF st.row.eventId = 0 \/ fault = "calendar" THEN st
  ELSE IF fault = "absent" THEN Raise(st)
  ELSE Did(st, "cancel")

\* ProjectService.cancelCalendarEvent: nothing to do without an event id or
\* when the calendar no longer has the event; what the calendar throws is
\* logged and swallowed.
cancelCalendarEvent(st, fault) ==
  IF st.row.eventId = 0 \/ fault \in {"calendar", "absent"} THEN st
  ELSE Did(st, "cancel")

\* NotificationService.sendCancellationNotification: returns without sending
\* when no cancellation template is configured or no assignee resolves (a row
\* that passes validation has one that does); throws when preparing or sending
\* fails.
sendCancellationNotification(st, fault, mailDown) ==
  IF ~st.cfg.emailTemplateCancellation \/ ~st.row.valid THEN st
  ELSE IF fault = "notify" \/ mailDown THEN Raise(st)
  ELSE Did(st, "notice")

\* A processDeleteRequest that sends the notice whatever the variant.
processDeleteRequestAlwaysNotify(p, cfg, n, fault, mailDown) ==
  LET s1 == sendCancellationNotification(cancelCalendarEvent(Start(p, cfg, n), fault),
                                         fault, mailDown)
  IN IF s1.error THEN s1 ELSE Did([s1 EXCEPT !.row.status = DELETED], "Deleted")

\* ProjectService.processDeleteRequest
processDeleteRequest(p, cfg, n, fault, mailDown) ==
  LET shouldNotify == p.status = DELETE_NOTIFY
      s1 == cancelCalendarEvent(Start(p, cfg, n), fault)
      s2 == IF shouldNotify THEN sendCancellationNotification(s1, fault, mailDown) ELSE s1
  IN IF s2.error THEN s2 ELSE Did([s2 EXCEPT !.row.status = DELETED], "Deleted")

\* ------------------------------------------------------------ Project / ProjectSheet
\* A Project object: originalData, currentData, dirtyColumns, _pendingHide.
NewProject(row) == [orig |-> row, cur |-> row, dirty |-> {}, pendingHide |-> FALSE]

NotLoaded == [r \in Rows |-> NewProject(EmptyRow)]

\* Project.set marks a column dirty when its value changes.
Changed(old, new) == {f \in Fields : old[f] # new[f]}

\* ProjectSheet.appendRow / a manual insert: the row after the last filled one.
FreeRows == {r \in Rows : ~store[r].filled}
LastRowPlusOne == CHOOSE r \in FreeRows : \A q \in FreeRows : r <= q

\* ProjectSheet.getReadyProjects / getUpdatedProjects / getPendingDeleteProjects
\* over the Project objects of invocation i.
RowsIn(i, S) == {r \in Rows : mem[i][r].cur.filled /\ mem[i][r].cur.status \in S}
getReadyProjects(i) == IF i = "maint" THEN {} ELSE RowsIn(i, {READY})
getUpdatedProjects(i) == IF i = "batch" THEN RowsIn(i, {UPDATED}) ELSE {}
getPendingDeleteProjects(i) ==
  IF i = "batch" THEN RowsIn(i, {DELETE_NOTIFY, DELETE_NO_NOTIFY}) ELSE {}

First(S) == CHOOSE r \in S : \A q \in S : r <= q

\* The row the loops of processNewProjects / handleFormSubmission handle next:
\* Ready rows first, then Updated rows, then delete requests, each in row order.
Pending(i) ==
  IF getReadyProjects(i) # {} THEN {First(getReadyProjects(i))}
  ELSE IF getUpdatedProjects(i) # {} THEN {First(getUpdatedProjects(i))}
  ELSE IF getPendingDeleteProjects(i) # {} THEN {First(getPendingDeleteProjects(i))}
  ELSE {}

Counts(r) ==
  [folders |-> nFolders[r], files |-> nFiles[r], events |-> nEvents[r], mails |-> nMails[r]]

\* One iteration of the loop of processReadyProjects, processUpdatedProjects or
\* processDeleteRequests: the row's processing and the loop's catch block.
HandleRow(p, cfg, n, fault, mailDown) ==
  CatchRow(
    CASE p.status = READY -> processReadyProject(p, cfg, n, fault, mailDown)
      [] p.status = UPDATED -> processUpdatedProject(p, cfg, n, fault, mailDown)
      [] OTHER -> processDeleteRequest(p, cfg, n, fault, mailDown),
    mailDown)

\* A flush that hides the marked rows and writes no cell.
FlushRowHideOnly(old, m) == [old EXCEPT !.hidden = @ \/ m.pendingHide]

\* ctx.flush() for one row: ProjectSheet.flush writes the dirty cells of the
\* project, then hideDeletedRows hides the row if the project is marked.
FlushRow(old, m) ==
  [f \in DOMAIN old |->
     IF f \in m.dirty THEN m.cur[f]
     ELSE IF f = "hidden" THEN old.hidden \/ m.pendingHide
     ELSE old[f]]

\* ------------------------------------------------------------ initial state
\* The Config sheets the model runs with: the district id is set, the serial
\* starts at 1, the project and cancellation templates are filled in, the "new
\* project" email template may or may not be.
Configs ==
  [districtId : {"NUSD"}, nextSerial : {1},
   projectTemplateId : {TRUE}, emailTemplateNewProject : BOOLEAN,
   emailTemplateCancellation : {TRUE}]

\* The project_status and completed_at cells of a row nobody has filled in.
NoTracking == [projectStatus |-> "", completedAt |-> 0]

\* No entry point has run to its end yet.
NoRun ==
  [run |-> "none", threw |-> FALSE, handled |-> {}, reminded |-> {}, digest |-> {},
   delivered |-> {}]

\* An empty Projects sheet whose status column carries the default rule of
\* ValidationService.initializeColumnValidation, no invocation running.
EmptySheet ==
  /\ store = [r \in Rows |-> EmptyRow]
  /\ guard = [r \in Rows |-> {READY}]
  /\ config \in Configs
  /\ lock = "free"
  /\ pc = [i \in Invs |-> "idle"]
  /\ mem = [i \in Invs |-> NotLoaded]
  /\ sentNew = [i \in Invs |-> {}]
  /\ nFolders = [r \in Rows |-> 0]
  /\ nFiles = [r \in Rows |-> 0]
  /\ nEvents = [r \in Rows |-> 0]
  /\ nMails = [r \in Rows |-> 0]
  /\ unlockedAccess = FALSE
  /\ failures = 0
  /\ edits = 0
  /\ deleteAsked = {}
  /\ tracking = [r \in Rows |-> NoTracking]
  /\ snapshotSheet = <<>>
  /\ digested = {}
  /\ now = 0
  /\ outbox = NoRun

Init == EmptySheet /\ arg = NoCall /\ ret = NoCall

\* ------------------------------------------------------------ actors
\* What a person can type into a new row, as far as the processors tell rows
\* apart: a row that fails validateProjectData (its other cells are never looked
\* at), a valid row without a project id (its reminder cell is never reached),
\* and valid rows with a hand-typed project id, with and without reminder offsets.
ManualRows ==
  {[id |-> NoId, valid |-> FALSE, rem |-> FALSE],
   [id |-> NoId, valid |-> TRUE, rem |-> FALSE],
   [id |-> ManualId, valid |-> TRUE, rem |-> FALSE],
   [id |-> ManualId, valid |-> TRUE, rem |-> TRUE]}

\* A person types a new row into the sheet, automation_status left blank.
ActorAddRow ==
  /\ FreeRows # {}
  /\ edits < MaxEdits
  /\ edits' = edits + 1
  /\ deleteAsked' = deleteAsked
  /\ \E k \in ManualRows :
       store' = [store EXCEPT ![LastRowPlusOne] =
                   [EmptyRow EXCEPT !.filled = TRUE, !.id = k.id, !.valid = k.valid,
                                    !.rem = k.rem]]
  /\ UNCHANGED <<failures, guard, config, lock, pc, mem, sentNew, nFolders, nFiles,
                 nEvents, nMails, unlockedAccess>>
  /\ UNCHANGED <<arg, ret, tracking, snapshotSheet, digested, now, outbox>>

\* A person picks a value in the automation_status dropdown of row r; the cell's
\* validation rule rejects values outside the list.  The onEdit handler
\* (handleEdit / handleProjectsEdit) reacts to the project_status column only.
ActorSetStatus(r, v) ==
  /\ store[r].filled
  /\ edits < MaxEdits
  /\ edits' = edits + 1
  /\ deleteAsked' = IF v \in {DELETE_NOTIFY, DELETE_NO_NOTIFY} THEN deleteAsked \cup {r}
                    ELSE deleteAsked
  /\ v \in guard[r]
  /\ v # store[r].status
  /\ store' = [store EXCEPT ![r].status = v]
  /\ UNCHANGED <<failures, guard, config, lock, pc, mem, sentNew, nFolders, nFiles,
                 nEvents, nMails, unlockedAccess>>
  /\ UNCHANGED <<arg, ret, tracking, snapshotSheet, digested, now, outbox>>

\* Menu action refreshDropdownValidation -> updateAllDropdownValidations.
RefreshDropdownValidation ==
  /\ edits < MaxEdits
  /\ edits' = edits + 1
  /\ deleteAsked' = deleteAsked
  /\ guard' = [r \in Rows |->
                 IF store[r].filled THEN getAllowedStatusValues(store[r].status)
                 ELSE {READY}]
  /\ guard' # guard
  /\ UNCHANGED <<failures, store, config, lock, pc, mem, sentNew, nFolders, nFiles,
                 nEvents, nMails, unlockedAccess>>
  /\ UNCHANGED <<arg, ret, tracking, snapshotSheet, digested, now, outbox>>

\* ------------------------------------------------------------ entry points
\* What the start of invocation i adds to the things people have done: a form
\* submission starts the intake, the clock starts the batch and the maintenance.
Submitted(i) == IF i = "intake" THEN 1 ELSE 0

\* A trigger fires while another invocation holds the script lock: the
\* invocation sits in lock.tryLock.
Trigger(i) ==
  /\ pc[i] = "idle"
  /\ lock # "free"
  /\ edits + Submitted(i) <= MaxEdits
  /\ edits' = edits + Submitted(i)
  /\ deleteAsked' = deleteAsked
  /\ pc' = [pc EXCEPT ![i] = "waiting"]
  /\ UNCHANGED <<failures, store, guard, config, lock, mem, sentNew, nFolders, nFiles,
                 nEvents, nMails, unlockedAccess>>
  /\ UNCHANGED <<arg, ret, tracking, snapshotSheet, digested, now, outbox>>

\* An entry point in which every lock timeout is logged and returned from.
afterTimeoutSilent(i) == "idle"

\* Where tryLock returning false leads: processNewProjects and
\* runDailyMaintenance log and return, handleFormSubmission reports to the
\* admins and throws.
afterTimeout(i) == IF i = "intake" THEN "raised" ELSE "idle"

\* tryLock returns false after the wait; nothing of the spreadsheet has been
\* opened yet.
LockTimeout(i) ==
  /\ pc[i] = "waiting"
  /\ lock # "free"
  /\ pc' = [pc EXCEPT ![i] = afterTimeout(i)]
  /\ UNCHANGED <<failures, edits, deleteAsked, store, guard, config, lock, mem, sentNew, nFolders, nFiles,
                 nEvents, nMails, unlockedAccess>>
  /\ UNCHANGED <<arg, ret, tracking, snapshotSheet, digested, now, outbox>>

\* A tryLock that never refuses.
tryLockUnguarded(i) == TRUE

\* Whether tryLock hands the lock to an invocation.
tryLock(i) == lock = "free"

\* new ExecutionContext(spreadsheetId) and ctx.validate(): the sheets are read
\* into Project objects.
loadData == [r \in Rows |-> NewProject(store[r])]

\* An intake that goes straight to processReadyProjects.
AfterInitNoAppend(i) == IF i = "maint" THEN "maint" ELSE "work"

\* Where an invocation goes once its context is built.
AfterInit(i) ==
  CASE i = "intake" -> "append"
    [] i = "maint" -> "maint"
    [] OTHER -> "work"

\* tryLock returns true and the try block builds and validates the context; a
\* missing sheet, key or column throws, which leads to catch and finally.
Acquire(i) ==
  /\ pc[i] \in {"idle", "waiting"}
  /\ i = "intake" => FreeRows # {}
  /\ tryLock(i)
  /\ lock' = i
  /\ IF pc[i] = "idle"
     THEN edits + Submitted(i) <= MaxEdits /\ edits' = edits + Submitted(i)
     ELSE edits' = edits
  /\ deleteAsked' = deleteAsked
  /\ \E ok \in BOOLEAN :
       IF ok
       THEN /\ mem' = [mem EXCEPT ![i] = loadData]
            /\ pc' = [pc EXCEPT ![i] = AfterInit(i)]
       ELSE /\ pc' = [pc EXCEPT ![i] = "catch"]
            /\ UNCHANGED mem
  /\ unlockedAccess' = (unlockedAccess \/ lock' # i)
  /\ UNCHANGED <<failures, store, guard, config, sentNew, nFolders, nFiles, nEvents, nMails>>
  /\ UNCHANGED <<arg, ret, tracking, snapshotSheet, digested, now, outbox>>

\* ProjectService.normalizeAndAppendFormResponse: the submission becomes a new
\* Ready row (no project id, no reminder offsets: the form has no such fields)
\* and the row's dropdown is set for Ready.
AppendFormResponse(i) ==
  /\ i = "intake"
  /\ pc[i] = "append"
  /\ FreeRows # {}
  /\ unlockedAccess' = (unlockedAccess \/ lock # i)
  /\ \E valid \in BOOLEAN :
       LET r == LastRowPlusOne
           row == [EmptyRow EXCEPT !.filled = TRUE, !.status = READY, !.valid = valid]
       IN /\ store' = [store EXCEPT ![r] = row]
          /\ mem' = [mem EXCEPT ![i][r] = NewProject(row)]
          /\ guard' = [guard EXCEPT ![r] = getAllowedStatusValues(READY)]
  /\ pc' = [pc EXCEPT ![i] = "work"]
  /\ UNCHANGED <<failures, edits, deleteAsked, config, lock, sentNew, nFolders, nFiles, nEvents, nMails>>
  /\ UNCHANGED <<arg, ret, tracking, snapshotSheet, digested, now, outbox>>

\* One iteration of processReadyProjects / processUpdatedProjects /
\* processDeleteRequests, with setAutomationStatus refreshing the row's dropdown.
ProcessRow(i) ==
  /\ pc[i] = "work"
  /\ \E r \in Pending(i), fault \in Faults, mailDown \in BOOLEAN :
       LET p == mem[i][r].cur
           out == HandleRow(p, config, Counts(r), fault, mailDown)
       IN /\ failures + Failing(fault, mailDown) <= MaxFailures
          /\ failures' = failures + Failing(fault, mailDown)
          /\ mem' = [mem EXCEPT ![i][r] =
                       [@ EXCEPT !.cur = out.row,
                                 !.dirty = @ \cup Changed(p, out.row),
                                 !.pendingHide = (out.row.status = DELETED)]]
          /\ guard' = [guard EXCEPT ![r] = getAllowedStatusValues(out.row.status)]
          /\ config' = out.cfg
          /\ nFolders' = [nFolders EXCEPT ![r] = out.n.folders]
          /\ nFiles' = [nFiles EXCEPT ![r] = out.n.files]
          /\ nEvents' = [nEvents EXCEPT ![r] = out.n.events]
          /\ nMails' = [nMails EXCEPT ![r] = out.n.mails]
          /\ sentNew' = [sentNew EXCEPT ![i] = IF out.mailed THEN @ \cup {r} ELSE @]
          /\ pc' = [pc EXCEPT ![i] = IF out.threw THEN "catch" ELSE "work"]
  /\ unlockedAccess' = (unlockedAccess \/ lock # i)
  /\ UNCHANGED <<store, lock, edits, deleteAsked>>
  /\ UNCHANGED <<arg, ret, tracking, snapshotSheet, digested, now, outbox>>

\* A finally block that leaves the lock alone.
releaseLockSkipped(i) == lock

\* lock.releaseLock(): the script lock after invocation i released it.
releaseLock(i) == IF lock = i THEN "free" ELSE lock

\* MaintenanceService.runDailyMaintenance (reminders, late marking, digests and
\* calendar sync; it rethrows what its tasks throw), then ctx.flush() and the
\* finally block. None of the fields kept here is written by the maintenance
\* tasks.
RunMaintenance(i) ==
  /\ i = "maint"
  /\ pc[i] = "maint"
  /\ \E ok \in BOOLEAN :
       IF ok
       THEN /\ pc' = [pc EXCEPT ![i] = "idle"]
            /\ lock' = releaseLock(i)
            /\ mem' = [mem EXCEPT ![i] = NotLoaded]
       ELSE /\ pc' = [pc EXCEPT ![i] = "catch"]
            /\ UNCHANGED <<lock, mem>>
  /\ UNCHANGED <<failures, edits, deleteAsked, store, guard, config, sentNew, nFolders, nFiles,
                 nEvents, nMails, unlockedAccess>>
  /\ UNCHANGED <<arg, ret, tracking, snapshotSheet, digested, now, outbox>>

\* ctx.flush(): ProjectSheet.flush writes the dirty cells, hideDeletedRows hides
\* the rows marked by processDeleteRequest; the handler then returns through
\* its finally block.
Flush(i) ==
  /\ pc[i] = "work"
  /\ Pending(i) = {}
  /\ store' = [r \in Rows |-> FlushRow(store[r], mem[i][r])]
  /\ unlockedAccess' = (unlockedAccess \/ lock # i)
  /\ lock' = releaseLock(i)
  /\ pc' = [pc EXCEPT ![i] = "idle"]
  /\ mem' = [mem EXCEPT ![i] = NotLoaded]
  /\ sentNew' = [sentNew EXCEPT ![i] = {}]
  /\ UNCHANGED <<failures, edits, deleteAsked, guard, config, nFolders, nFiles, nEvents, nMails>>
  /\ UNCHANGED <<arg, ret, tracking, snapshotSheet, digested, now, outbox>>

\* The catch block (sendAdminErrorNotification swallows its own failures, then
\* rethrow) and the finally block: lock.releaseLock(); the invocation ends
\* with its error.
Release(i) ==
  /\ pc[i] = "catch"
  /\ lock' = releaseLock(i)
  /\ pc' = [pc EXCEPT ![i] = "idle"]
  /\ mem' = [mem EXCEPT ![i] = NotLoaded]
  /\ sentNew' = [sentNew EXCEPT ![i] = {}]
  /\ UNCHANGED <<failures, edits, deleteAsked, store, guard, config, nFolders, nFiles, nEvents, nMails,
                 unlockedAccess>>
  /\ UNCHANGED <<arg, ret, tracking, snapshotSheet, digested, now, outbox>>

\* The error thrown by handleFormSubmission before its try block leaves the
\* handler: the trigger execution is marked as failed.
FailExecution(i) ==
  /\ pc[i] = "raised"
  /\ pc' = [pc EXCEPT ![i] = "idle"]
  /\ UNCHANGED <<failures, edits, deleteAsked, store, guard, config, lock, mem, sentNew, nFolders, nFiles,
                 nEvents, nMails, unlockedAccess>>
  /\ UNCHANGED <<arg, ret, tracking, snapshotSheet, digested, now, outbox>>

Next ==
  \/ ActorAddRow
  \/ \E r \in Rows, v \in AUTOMATION_STATUS : ActorSetStatus(r, v)
  \/ RefreshDropdownValidation
  \/ \E i \in Invs : Trigger(i)
  \/ \E i \in Invs : Acquire(i)
  \/ \E i \in Invs : LockTimeout(i)
  \/ \E i \in Invs : AppendFormResponse(i)
  \/ \E i \in Invs : ProcessRow(i)
  \/ \E i \in Invs : RunMaintenance(i)
  \/ \E i \in Invs : Flush(i)
  \/ \E i \in Invs : Release(i)
  \/ \E i \in Invs : FailExecution(i)

Spec == Init /\ [][Next]_vars

\* ------------------------------------------------------------ helpers alone
\* The configurations the allocator is called with: the district id filled in
\* or not, the serial absent (0), small, or at the end of its four digits.
AllocConfigs ==
  [districtId : {"", "NUSD"}, nextSerial : {0, 1, 24, 9999, 10000},
   projectTemplateId : {TRUE}, emailTemplateNewProject : {TRUE}]

\* The deadlines of the rows an id is allocated for and the configured months
\* the school year can start in.
Deadlines == [year : {2025, 2026, 2100}, month : {1, 6, 7, 12}]
StartMonths == {1, 7, 8}

\* Two of the REQUIRED_CONFIG_KEYS, two of the REQUIRED_PROJECT_COLUMNS and two
\* of the files validateFileAccess opens, each list in the order of the source.
REQUIRED_CONFIG_KEYS == <<"District ID", "Next Serial">>
REQUIRED_PROJECT_COLUMNS == <<"project_id", "automation_status">>
RequiredFiles == <<"Parent Folder", "Project Template">>

\* The elements of a list.
Range(q) == {q[k] : k \in 1..Len(q)}

\* The messages made of the entries of a list that are among the failing ones,
\* in list order; a message is its text and the set of names it carries.
Complaints(what, list, failing) ==
  LET bad == SelectSeq(list, LAMBDA name : name \in failing)
  IN [k \in 1..Len(bad) |-> <<what, {bad[k]}>>]

\* Validator.validateConfigKeys: one error per required key that column A of
\* the Config sheet does not hold.
validateConfigKeys(env) ==
  LET existingKeys == Range(env.configKeys)
  IN Complaints("Missing required config key", REQUIRED_CONFIG_KEYS,
                Range(REQUIRED_CONFIG_KEYS) \ existingKeys)

\* Validator.validateProjectColumns: row 2 empty, or one error naming the keys
\* that occur twice, then one error per required column not found.
validateProjectColumns(env) ==
  LET columnKeys == env.columnKeys
      seen == Range(columnKeys)
      duplicates == {c \in seen : Cardinality({k \in 1..Len(columnKeys) : columnKeys[k] = c}) > 1}
  IN IF Len(columnKeys) = 0 THEN << <<"Project sheet Row 2 is empty", {}>> >>
     ELSE (IF duplicates # {} THEN << <<"Duplicate column keys in Row 2", duplicates>> >> ELSE <<>>)
          \o Complaints("Missing required project column", REQUIRED_PROJECT_COLUMNS,
                        Range(REQUIRED_PROJECT_COLUMNS) \ seen)

\* Validator.validateFileAccess: one error per file or folder that cannot be
\* opened.
validateFileAccess(env) ==
  Complaints("Cannot access", RequiredFiles, env.unreachable)

\* Validator.validate(options): the errors of the checks are gathered and
\* thrown as one; the files are opened only when the caller asks for it.
Validator_validate(env, includeFileAccess) ==
  LET errors == validateConfigKeys(env) \o validateProjectColumns(env)
                \o (IF includeFileAccess THEN validateFileAccess(env) ELSE <<>>)
  IN [threw |-> Len(errors) > 0, errors |-> errors]

\* ExecutionContext.validate(): takes no options and passes none on.
ExecutionContext_validate(env) == Validator_validate(env, FALSE)

\* What column A of the Config sheet and row 2 of the Projects sheet can hold
\* (up to three cells each, keys possibly missing or repeated) and which of the
\* files cannot be opened.
MaxCells == 3
Lists(S) == UNION {[1..n -> S] : n \in 0..MaxCells}
Environments ==
  [configKeys : Lists(Range(REQUIRED_CONFIG_KEYS)),
   columnKeys : Lists(Range(REQUIRED_PROJECT_COLUMNS)),
   unreachable : SUBSET Range(RequiredFiles)]

\* The cells validateProjectData reads: the title and the deadline present or
\* not, the requester blank, unknown to the Directory or known, and up to
\* MaxAssignees assignees, each known to the Directory or not.
MaxAssignees == 2
ProjectData ==
  [projectName : BOOLEAN, dueDate : BOOLEAN, requestedBy : {"", "unknown", "known"},
   assignees : UNION {[1..n -> {"unknown", "known"}] : n \in 0..MaxAssignees}]

\* Directory.resolveToEmail: a name or address the Directory can turn into an
\* e-mail address.
resolveToEmail(who) == who = "known"

\* One entry of the errors array: its text and the field it is about.
Problem(text, field) == <<text, field>>

\* A validateProjectData that stops at the first problem it finds.
validateProjectDataFailFast(project) ==
  LET errors ==
        IF ~project.projectName THEN <<Problem("Missing required field", "Project Title")>>
        ELSE IF ~project.dueDate THEN <<Problem("Missing required field", "Deadline (Due Date)")>>
        ELSE IF ~resolveToEmail(project.requestedBy)
        THEN <<Problem("Missing required field", "Requested By")>>
        ELSE IF \A k \in 1..Len(project.assignees) : ~resolveToEmail(project.assignees[k])
        THEN <<Problem("Missing required field", "Assignee")>>
        ELSE <<>>
  IN [valid |-> Len(errors) = 0, errors |-> errors]

\* ProjectService.validateProjectData: every check is made and its error
\* pushed; the row is valid when no error was pushed.
validateProjectData(project) ==
  LET assignees == project.assignees
      invalidAssignees == SelectSeq(assignees, LAMBDA a : ~resolveToEmail(a))
      errors ==
        (IF ~project.projectName
         THEN <<Problem("Missing required field", "Project Title")>> ELSE <<>>)
        \o (IF ~project.dueDate
            THEN <<Problem("Missing required field", "Deadline (Due Date)")>> ELSE <<>>)
        \o (IF project.requestedBy = ""
            THEN <<Problem("Missing required field", "Requested By")>>
            ELSE IF ~resolveToEmail(project.requestedBy)
            THEN <<Problem("Requester not found in Directory", "Requested By")>>
            ELSE <<>>)
        \o (IF Len(assignees) = 0
            THEN <<Problem("Missing required field", "Assignee")>>
            ELSE IF Len(invalidAssignees) = 0 THEN <<>>
            ELSE IF Len(invalidAssignees) = Len(assignees)
            THEN <<Problem("No valid assignees found", "Assignee")>>
            ELSE <<Problem("Some assignees could not be resolved", "Assignee")>>)
  IN [valid |-> Len(errors) = 0, errors |-> errors]

\* ProjectService.buildErrorMessage: the lines of the one message, a heading
\* followed by a bullet per error detail.
buildErrorMessage(errorType, errorDetails) ==
  <<Problem(errorType, "")>> \o [k \in 1..Len(errorDetails) |-> errorDetails[k]]

\* The rows processReadyProject and processDeleteRequest are handed: Ready rows
\* that do or do not pass validation, with or without an id, a folder, an event
\* and reminder offsets; delete requests of both variants for rows with or
\* without an event and with or without an assignee that resolves.
ReadyRows ==
  [filled : {TRUE}, status : {READY}, id : {NoId, ManualId}, folderId : {0, 1}, fileId : {0},
   eventId : {0, 1}, valid : BOOLEAN, rem : BOOLEAN, hidden : {FALSE}]
DeleteRows ==
  [filled : {TRUE}, status : {DELETE_NOTIFY, DELETE_NO_NOTIFY}, id : {ManualId}, folderId : {1},
   fileId : {1}, eventId : {0, 1}, valid : BOOLEAN, rem : {TRUE}, hidden : {FALSE}]

\* The Config sheets they are handed: each e-mail template filled in or not.
MailConfigs ==
  [districtId : {"NUSD"}, nextSerial : {1}, projectTemplateId : {TRUE},
   emailTemplateNewProject : BOOLEAN, emailTemplateCancellation : BOOLEAN]

\* The provider's counts for a row that has the artifacts named in its cells.
CountsOf(p) ==
  [folders |-> p.folderId, files |-> p.fileId, events |-> p.eventId, mails |-> 0]

\* ---- an Updated row and its calendar event
\* The addresses the directory resolves names to.
Emails == {"ann@", "bob@", "cat@"}

\* formatProjectTitle(projectId, projectName): the name followed by the id.
formatProjectTitle(projectId, projectName) == <<projectName, "[", projectId, "]">>

\* Project.displayTitle
displayTitle(project) == formatProjectTitle(project.projectId, project.projectName)

\* Project.getAllRecipientEmails: the assignees that resolve and the requester.
getAllRecipientEmails(project) == project.assigneeEmails \cup {project.requestedBy}

\* The Updated rows processUpdatedProject is handed, as far as the event and
\* the notification look at them, and the events the calendar can hold for
\* them; NoEvent is an event the calendar no longer has.
UpdatedProjects ==
  [projectId : {"NUSD-1"}, projectName : {"Fair", "Gala"}, dueDate : {10, 20},
   assigneeEmails : SUBSET {"ann@", "bob@"}, requestedBy : {"cat@"}]
NoEvent == [found |-> FALSE]
CalendarEvents ==
  {NoEvent} \cup
  [found : {TRUE},
   title : {formatProjectTitle("NUSD-1", "Fair"), formatProjectTitle("NUSD-1", "Gala")},
   date : {10, 20}, guests : SUBSET Emails]

\* What getCalendarEventSnapshot and detectProjectChanges return when they
\* cannot tell, and what no mail looks like.
NoSnapshot == [null |-> TRUE]
NoChanges == [null |-> TRUE]
NoMail == [sent |-> FALSE]

\* ProjectService.getCalendarEventSnapshot: title, date and guests of the
\* event; null when the event is not found or the calendar throws.
getCalendarEventSnapshot(event, fault) ==
  IF fault = "calendar" \/ ~event.found THEN NoSnapshot
  ELSE [title |-> event.title, date |-> event.date, guestEmails |-> event.guests]

\* ProjectService.updateCalendarEvent on the event of the row: title, date and
\* guests are set from the project; an event that is not found is left alone.
updateCalendarEvent(event, project) ==
  IF ~event.found THEN event
  ELSE [found |-> TRUE, title |-> displayTitle(project), date |-> project.dueDate,
        guests |-> (event.guests \ (event.guests \ getAllRecipientEmails(project)))
                     \cup getAllRecipientEmails(project)]

\* ProjectService.detectProjectChanges
detectProjectChanges(beforeState, project) ==
  IF beforeState = NoSnapshot THEN NoChanges
  ELSE LET currentEmails == getAllRecipientEmails(project)
           changes ==
             [titleChanged |-> IF beforeState.title # displayTitle(project)
                               THEN <<beforeState.title, displayTitle(project)>> ELSE <<>>,
              dateChanged |-> IF beforeState.date # project.dueDate
                              THEN <<beforeState.date, project.dueDate>> ELSE <<>>,
              peopleAdded |-> currentEmails \ beforeState.guestEmails,
              peopleRemoved |-> beforeState.guestEmails \ currentEmails]
           hasChanges == \/ changes.titleChanged # <<>>
                         \/ changes.dateChanged # <<>>
                         \/ changes.peopleAdded # {}
                         \/ changes.peopleRemoved # {}
       IN IF hasChanges THEN changes ELSE [noKeyChanges |-> TRUE]

\* Project.getTokenValues, the tokens that differ between the rows looked at.
getTokenValues(project) ==
  [PROJECT_TITLE |-> project.projectName, PROJECT_ID |-> project.projectId,
   ASSIGNEE_NAME |-> project.assigneeEmails, REQUESTED_BY_NAME |-> project.requestedBy,
   DEADLINE |-> project.dueDate]

\* NotificationService.sendUpdateNotification(project): one mail to the
\* assignees, the requester in copy, the template filled with the tokens of the
\* project; nothing without a template or without an assignee address. The
\* method has one parameter: the changes its caller hands over are dropped.
sendUpdateNotification(project, changes, template) ==
  IF ~template \/ project.assigneeEmails = {} THEN NoMail
  ELSE [sent |-> TRUE, to |-> project.assigneeEmails, cc |-> project.requestedBy,
        tokens |-> getTokenValues(project)]

\* ---- the status snapshot
\* A JavaScript Map as the list of its entries <<key, value>> in insertion
\* order: has, get (Undefined when the key is absent) and set.
Undefined == "undefined"
MapHas(m, k) == \E n \in 1..Len(m) : m[n][1] = k
MapGet(m, k) == IF MapHas(m, k) THEN m[CHOOSE n \in 1..Len(m) : m[n][1] = k][2] ELSE Undefined
MapSet(m, k, v) ==
  IF MapHas(m, k) THEN [n \in 1..Len(m) |-> IF m[n][1] = k THEN <<k, v>> ELSE m[n]]
  ELSE Append(m, <<k, v>>)

\* The project statuses the rows looked at carry (PROJECT_STATUS.ON_TRACK,
\* LATE and COMPLETE) and the project ids of the rows; a row can lack an id.
PROJECT_ASSIGNED == "Project Assigned"
ON_TRACK == "On Track"
LATE == "Late"
COMPLETE == "Complete"
NoProjectId == ""
ProjectIds == {"P1", "P2"}

\* SnapshotSheet.loadSnapshot: the rows below the header become a Map id ->
\* status; rows without an id are skipped, a repeated id keeps its last status.
RECURSIVE loadSnapshot(_)
loadSnapshot(data) ==
  IF data = <<>> THEN <<>>
  ELSE LET last == data[Len(data)]
           snapshot == loadSnapshot(SubSeq(data, 1, Len(data) - 1))
       IN IF last[1] # NoProjectId THEN MapSet(snapshot, last[1], last[2]) ELSE snapshot

\* A getStatusMap that takes the Deleted rows in as well.
RECURSIVE getStatusMapWithDeleted(_)
getStatusMapWithDeleted(projects) ==
  IF projects = <<>> THEN <<>>
  ELSE LET project == projects[Len(projects)]
           map == getStatusMapWithDeleted(SubSeq(projects, 1, Len(projects) - 1))
       IN IF project.projectId # NoProjectId
          THEN MapSet(map, project.projectId, project.projectStatus)
          ELSE map

\* ProjectSheet.getStatusMap: id -> projectStatus of the rows that have an id
\* and are not Deleted.
RECURSIVE getStatusMap(_)
getStatusMap(projects) ==
  IF projects = <<>> THEN <<>>
  ELSE LET project == projects[Len(projects)]
           map == getStatusMap(SubSeq(projects, 1, Len(projects) - 1))
       IN IF project.projectId # NoProjectId /\ project.automationStatus # DELETED
          THEN MapSet(map, project.projectId, project.projectStatus)
          ELSE map

\* A detectChanges that reports the ids it has not seen before as well.
RECURSIVE detectChangesAndNew(_, _)
detectChangesAndNew(previousSnapshot, currentStatuses) ==
  IF currentStatuses = <<>> THEN <<>>
  ELSE LET entry == currentStatuses[Len(currentStatuses)]
           changes == detectChangesAndNew(previousSnapshot,
                                          SubSeq(currentStatuses, 1, Len(currentStatuses) - 1))
           oldStatus == MapGet(previousSnapshot, entry[1])
       IN IF oldStatus # entry[2]
          THEN Append(changes, [projectId |-> entry[1], oldStatus |-> oldStatus,
                                newStatus |-> entry[2]])
          ELSE changes

\* SnapshotSheet.detectChanges, the snapshot sheet already loaded: one change
\* per entry of the current statuses whose id the snapshot has with another
\* status.
RECURSIVE detectChanges(_, _)
detectChanges(previousSnapshot, currentStatuses) ==
  IF currentStatuses = <<>> THEN <<>>
  ELSE LET entry == currentStatuses[Len(currentStatuses)]
           changes == detectChanges(previousSnapshot,
                                    SubSeq(currentStatuses, 1, Len(currentStatuses) - 1))
           oldStatus == MapGet(previousSnapshot, entry[1])
       IN IF oldStatus = Undefined THEN changes
          ELSE IF oldStatus # entry[2]
          THEN Append(changes, [projectId |-> entry[1], oldStatus |-> oldStatus,
                                newStatus |-> entry[2]])
          ELSE changes

\* The Status Snapshot sheets and the Projects sheets the diff is computed
\* for: up to MaxSnapshotRows and MaxStatusRows rows.
MaxSnapshotRows == 2
MaxStatusRows == 2
SnapshotData ==
  UNION {[1..n -> (ProjectIds \cup {NoProjectId}) \X {ON_TRACK, COMPLETE}] : n \in 0..MaxSnapshotRows}
StatusRows ==
  UNION {[1..n -> [projectId : ProjectIds \cup {NoProjectId},
                   automationStatus : {CREATED, DELETED},
                   projectStatus : {ON_TRACK, COMPLETE}]] : n \in 0..MaxStatusRows}

\* ---- reminders
\* The Directory: two staff members by name, and the address of one of them
\* typed in place of the name.
getEmailByName(name) ==
  CASE name = "Ann" -> "ann@"
    [] name = "Bob" -> "bob@"
    [] OTHER -> ""

\* Directory.resolveAllToEmails: the addresses the tokens resolve to, in the
\* order of the tokens; a token that is an address stands for itself, one that
\* does not resolve is left out.
RECURSIVE resolveAllToEmails(_)
resolveAllToEmails(namesOrEmails) ==
  IF namesOrEmails = <<>> THEN <<>>
  ELSE LET input == namesOrEmails[Len(namesOrEmails)]
           emails == resolveAllToEmails(SubSeq(namesOrEmails, 1, Len(namesOrEmails) - 1))
           email == IF input \in Emails THEN input ELSE getEmailByName(input)
       IN IF email # "" THEN Append(emails, email) ELSE emails

\* Project.daysUntilDue(refDate), dates counted in days.
daysUntilDue(project, refDate) == project.dueDate - refDate

\* The loop of sendReminders that adds the reminder to the list of each
\* assignee address, in the order resolveAllToEmails gives them.
RECURSIVE AddToEach(_, _, _)
AddToEach(remindersByAssignee, assigneeEmails, reminder) ==
  IF assigneeEmails = <<>> THEN remindersByAssignee
  ELSE LET email == assigneeEmails[Len(assigneeEmails)]
           m == AddToEach(remindersByAssignee,
                          SubSeq(assigneeEmails, 1, Len(assigneeEmails) - 1), reminder)
       IN MapSet(m, email, (IF MapHas(m, email) THEN MapGet(m, email) ELSE <<>>) \o <<reminder>>)

\* MaintenanceService.sendReminders: the Map address -> reminders it builds
\* from the rows that are not Complete, not Deleted and Created, one reminder
\* per row whose days until due are among its offsets.
RECURSIVE sendReminders(_, _)
sendReminders(projects, today) ==
  IF projects = <<>> THEN <<>>
  ELSE LET project == projects[Len(projects)]
           m == sendReminders(SubSeq(projects, 1, Len(projects) - 1), today)
           offsets == project.reminderOffsets
           days == daysUntilDue(project, today)
       IN IF project.projectStatus = COMPLETE \/ project.automationStatus = DELETED THEN m
          ELSE IF project.automationStatus # CREATED THEN m
          ELSE IF Len(offsets) = 0 THEN m
          ELSE IF \E k \in 1..Len(offsets) : days = offsets[k]
          THEN AddToEach(m, resolveAllToEmails(project.assignees),
                         [projectId |-> project.projectId, daysUntilDue |-> days])
          ELSE m

\* The rows a sweep looks through for reminders: one row in every shape (its
\* assignee cell names no token twice), alone or followed by a Created row due
\* in seven days with the offsets 3, 7, 14.
ReminderRows ==
  [projectId : {"P1"}, automationStatus : {READY, CREATED, DELETED},
   projectStatus : {ON_TRACK, COMPLETE}, dueDate : {7, 8},
   reminderOffsets : {<<>>, <<3, 7, 14>>, <<3, 14>>},
   assignees : {a \in UNION {[1..n -> {"Ann", "ann@", "Bob"}] : n \in 0..MaxAssignees} :
                  \A j, k \in 1..Len(a) : a[j] = a[k] => j = k}]
OtherRows ==
  [projectId : {"P2"}, automationStatus : {CREATED}, projectStatus : {ON_TRACK}, dueDate : {7},
   reminderOffsets : {<<3, 7, 14>>}, assignees : {<<"Ann">>, <<"Bob">>}]

\* ---- sharing permissions
\* DIRECTORY_ACCESS_ROLES and DIRECTORY_FOLDER_SCOPES.
ROLE_NONE == "none"
ROLE_VIEWER == "viewer"
ROLE_EDITOR == "editor"
ASSIGNED_ONLY == "assigned_only"
ALL_VIEWER == "all_viewer"
ALL_EDITOR == "all_editor"

\* computeEffectiveDirectoryAccess, from the normalized Global Access, Main
\* File Role and Project Scope of a Directory row.
computeEffectiveDirectoryAccess(globalRole, mainRole, projectScope) ==
  CASE globalRole = ROLE_EDITOR ->
         [effectiveSpreadsheetRole |-> ROLE_EDITOR, effectiveFolderScope |-> ALL_EDITOR]
    [] globalRole = ROLE_VIEWER ->
         [effectiveSpreadsheetRole |-> IF mainRole = ROLE_EDITOR THEN ROLE_EDITOR ELSE ROLE_VIEWER,
          effectiveFolderScope |-> IF projectScope = ALL_EDITOR THEN ALL_EDITOR ELSE ALL_VIEWER]
    [] OTHER ->
         [effectiveSpreadsheetRole |-> IF mainRole \in {ROLE_EDITOR, ROLE_VIEWER} THEN mainRole
                                       ELSE ROLE_NONE,
          effectiveFolderScope |-> IF projectScope \in {ALL_EDITOR, ALL_VIEWER} THEN projectScope
                                   ELSE ASSIGNED_ONLY]

\* The loop shared by buildSpreadsheetPermissions, buildRootFolderPermissions
\* and buildProjectsParentPermissions: a blank row is skipped, a "no" row goes
\* to the removals, a "yes" row gets the permission its role stands for or goes
\* to the removals; perm[k] is that permission for row k ("" for none).
RECURSIVE buildPermissions(_, _)
buildPermissions(accessRows, perm) ==
  IF accessRows = <<>> THEN [desiredRoles |-> <<>>, removeEmails |-> {}]
  ELSE LET n == Len(accessRows)
           row == accessRows[n]
           rest == buildPermissions(SubSeq(accessRows, 1, n - 1), SubSeq(perm, 1, n - 1))
       IN CASE row.activeFlag = "blank" -> rest
            [] row.activeFlag = "no" ->
                 [rest EXCEPT !.removeEmails = @ \cup {row.email}]
            [] perm[n] # "" ->
                 [rest EXCEPT !.desiredRoles = MapSet(@, row.email, perm[n])]
            [] OTHER -> [rest EXCEPT !.removeEmails = @ \cup {row.email}]

Effective(row) == computeEffectiveDirectoryAccess(row.globalRole, row.mainRole, row.projectScope)

\* PermissionService.buildSpreadsheetPermissions
buildSpreadsheetPermissions(accessRows) ==
  buildPermissions(accessRows,
    [k \in 1..Len(accessRows) |->
       CASE Effective(accessRows[k]).effectiveSpreadsheetRole = ROLE_EDITOR -> "edit"
         [] Effective(accessRows[k]).effectiveSpreadsheetRole = ROLE_VIEWER -> "view"
         [] OTHER -> ""])

\* PermissionService.buildRootFolderPermissions
buildRootFolderPermissions(accessRows) ==
  buildPermissions(accessRows,
    [k \in 1..Len(accessRows) |->
       CASE accessRows[k].globalRole = ROLE_EDITOR -> "edit"
         [] accessRows[k].globalRole = ROLE_VIEWER -> "view"
         [] OTHER -> ""])

\* PermissionService.buildProjectsParentPermissions
buildProjectsParentPermissions(accessRows) ==
  buildPermissions(accessRows,
    [k \in 1..Len(accessRows) |->
       CASE Effective(accessRows[k]).effectiveFolderScope = ALL_EDITOR -> "edit"
         [] Effective(accessRows[k]).effectiveFolderScope = ALL_VIEWER -> "view"
         [] OTHER -> ""])

\* The first loop of syncDrivePermissions, "Additions and upgrades/downgrades",
\* over the editors and viewers read before the loop; Drive keeps an address
\* as editor or as viewer, never as both.
RECURSIVE applyDesiredRoles(_, _, _, _)
applyDesiredRoles(entity, current, desiredRoles, owner) ==
  IF desiredRoles = <<>> THEN entity
  ELSE LET n == Len(desiredRoles)
           email == desiredRoles[n][1]
           e == applyDesiredRoles(entity, current, SubSeq(desiredRoles, 1, n - 1), owner)
       IN IF email = "" \/ email = owner THEN e
          ELSE IF desiredRoles[n][2] = "edit"
          THEN IF email \in current.editors THEN e
               ELSE [editors |-> e.editors \cup {email}, viewers |-> e.viewers \ {email}]
          ELSE IF email \in current.editors \/ email \notin current.viewers
          THEN [editors |-> e.editors \ {email}, viewers |-> e.viewers \cup {email}]
          ELSE e

\* A syncDrivePermissions that treats the owner like everybody else.
syncDrivePermissionsOwnerToo(entity, desiredRoles, removeEmails, ownerEmail) ==
  LET added == applyDesiredRoles(entity, entity, desiredRoles, "")
      removed == {email \in removeEmails :
                    email # "" /\ email \in entity.editors \cup entity.viewers}
  IN [editors |-> added.editors \ removed, viewers |-> added.viewers \ removed]

\* PermissionService.syncDrivePermissions with a Drive that answers every
\* call: the additions, then the "Explicit removals" of the addresses that the
\* lists read at the start show as editor or viewer; the owner is skipped.
syncDrivePermissions(entity, desiredRoles, removeEmails, ownerEmail) ==
  LET added == applyDesiredRoles(entity, entity, desiredRoles, ownerEmail)
      removed == {email \in removeEmails :
                    /\ email # "" /\ email # ownerEmail
                    /\ email \in entity.editors \cup entity.viewers}
  IN [editors |-> added.editors \ removed, viewers |-> added.viewers \ removed]

\* ProjectService.shareProjectFolder: every assignee and the requester that
\* resolve to an address are inserted as writers of the folder.
shareProjectFolder(folder, project) ==
  LET emailsToShare == Range(resolveAllToEmails(project.assignees))
                         \cup Range(resolveAllToEmails(<<project.requestedBy>>))
  IN [editors |-> folder.editors \cup emailsToShare,
      viewers |-> folder.viewers \ emailsToShare]

\* PermissionService.refreshAllPermissions: the main spreadsheet, the Project
\* Folders parent and the root folder are synced with the Directory, then
\* refreshProjectFolderPermissions shares the folder of each project again.
refreshAllPermissions(drive, accessRows, project, ownerEmail) ==
  [spreadsheet |-> LET b == buildSpreadsheetPermissions(accessRows)
                   IN syncDrivePermissions(drive.spreadsheet, b.desiredRoles, b.removeEmails,
                                           ownerEmail),
   parent |-> LET b == buildProjectsParentPermissions(accessRows)
              IN syncDrivePermissions(drive.parent, b.desiredRoles, b.removeEmails, ownerEmail),
   root |-> LET b == buildRootFolderPermissions(accessRows)
            IN syncDrivePermissions(drive.root, b.desiredRoles, b.removeEmails, ownerEmail),
   projectFolder |-> shareProjectFolder(drive.projectFolder, project)]

\* The Directory rows the sync is run for: Ann's row in every shape, alone or
\* followed by Bob's row, an active viewer.
AccessRowsOfAnn ==
  [name : {"Ann"}, email : {"ann@"}, activeFlag : {"yes", "no", "blank"},
   globalRole : {ROLE_NONE, ROLE_VIEWER, ROLE_EDITOR},
   mainRole : {ROLE_NONE, ROLE_VIEWER, ROLE_EDITOR},
   projectScope : {ASSIGNED_ONLY, ALL_VIEWER, ALL_EDITOR}]
AccessRowOfBob ==
  [name |-> "Bob", email |-> "bob@", activeFlag |-> "yes", globalRole |-> ROLE_VIEWER,
   mainRole |-> ROLE_NONE, projectScope |-> ASSIGNED_ONLY]

\* What Drive holds before the sync: Ann has the same access to every managed
\* file and folder (none, viewer or editor); Cat, who is in no Directory row,
\* edits them all, or views them as Ann does.
Grants ==
  {[editors |-> {"cat@"}, viewers |-> {}],
   [editors |-> {"cat@"}, viewers |-> {"ann@"}],
   [editors |-> {"cat@", "ann@"}, viewers |-> {}],
   [editors |-> {}, viewers |-> {"cat@", "ann@"}]}
Drives == {[spreadsheet |-> g, parent |-> g, root |-> g, projectFolder |-> g] : g \in Grants}

\* The one project with a folder: assigned to nobody, to Ann or to Bob,
\* requested by somebody the Directory does not know, entered by name or by
\* address.
SharedProjects == [assignees : {<<>>, <<"Ann">>, <<"Bob">>}, requestedBy : {"Dan", "cat@"}]

\* ---- the retry policy
\* withBackoff's default number of attempts.
attempts == 5

\* How one attempt of a provider call that creates something (createFolder,
\* makeCopy, createAllDayEvent, GmailApp.sendEmail) can end: it succeeds; it is
\* refused with a retryable error ("rate limit", "unavailable", 429, 5xx) and
\* nothing happened; it took effect at the provider but the answer was lost and
\* a retryable error is reported; it fails with another error.
AttemptOutcomes == {"ok", "refused", "lost", "fatal"}

\* withBackoff(fn) for such a call, from the given attempt on: fn is called
\* again after a retryable error until an attempt returns, an error is not
\* retryable or the attempts are used up.  The result counts the calls made and
\* the things they created at the provider.
RECURSIVE withBackoff(_, _)
withBackoff(outcomes, attempt) ==
  LET outcome == outcomes[attempt]
      created == IF outcome \in {"ok", "lost"} THEN 1 ELSE 0
      isRetryable == outcome \in {"refused", "lost"}
  IN IF outcome = "ok" THEN [threw |-> FALSE, calls |-> 1, created |-> created]
     ELSE IF ~isRetryable \/ attempt = attempts
     THEN [threw |-> TRUE, calls |-> 1, created |-> created]
     ELSE LET rest == withBackoff(outcomes, attempt + 1)
          IN [rest EXCEPT !.calls = @ + 1, !.created = @ + created]

\* ---- reminder offsets and their labels (the Codes sheet)
\* What the two reminder columns of a Codes row can hold: an offset cell is
\* blank or a number (a set with no or one member), a label cell is blank or a
\* text.
OffsetCells == {{}, {3}, {7}}
LabelCells == {"", "3 days before", "1 week before", "1 Week Before"}

\* String.prototype.toLowerCase on the labels that occur.
toLowerCase(label) == IF label = "1 Week Before" THEN "1 week before" ELSE label

\* parseInt(label, 10) on the labels that occur: the leading digits, or no
\* number (NaN) when there are none.
parseInt(label) ==
  CASE label \in {"1 week before", "1 Week Before", "1 days before"} -> {1}
    [] label = "2 weeks before" -> {2}
    [] label \in {"3 days before", "3 weeks before"} -> {3}
    [] label = "7 days before" -> {7}
    [] OTHER -> {}

\* Codes.readReminderColumns: rows without a number are skipped, as are rows
\* whose offset was seen before; offsets and labels stay aligned.
RECURSIVE readReminderColumns(_, _, _)
readReminderColumns(rangeValues, i, read) ==
  IF i > Len(rangeValues) THEN read
  ELSE LET rawOffset == rangeValues[i].offset
           offset == CHOOSE n \in rawOffset : TRUE
       IN IF rawOffset = {} \/ \E k \in 1..Len(read.offsets) : read.offsets[k] = offset
          THEN readReminderColumns(rangeValues, i + 1, read)
          ELSE readReminderColumns(rangeValues, i + 1,
                 [offsets |-> Append(read.offsets, offset),
                  labels |-> Append(read.labels, rangeValues[i].label)])

\* new Codes(sheet): reminderOffsets and reminderLabels as loadData leaves them.
Codes(rangeValues) ==
  LET read == readReminderColumns(rangeValues, 1, [offsets |-> <<>>, labels |-> <<>>])
  IN [reminderOffsets |-> read.offsets, reminderLabels |-> read.labels]

buildDefaultReminderLabel(offset) ==
  IF offset = 7 THEN "1 week before"
  ELSE IF offset = 14 THEN "2 weeks before"
  ELSE IF offset = 21 THEN "3 weeks before"
  ELSE ToString(offset) \o " days before"

\* Codes.getReminderOptions: the offset/label pairs, a blank label replaced by
\* the default one.
getReminderOptions(codes) ==
  [i \in 1..Len(codes.reminderOffsets) |->
     [offset |-> codes.reminderOffsets[i],
      label |-> IF codes.reminderLabels[i] # "" THEN codes.reminderLabels[i]
                ELSE buildDefaultReminderLabel(codes.reminderOffsets[i])]]

\* Codes.labelToOffset: the offset of the first label equal to it ignoring
\* case, else the number the label starts with, else null (no member).
labelToOffset(codes, label) ==
  IF label = "" THEN {}
  ELSE LET normalized == toLowerCase(label)
           found == {i \in 1..Len(codes.reminderLabels) :
                       /\ codes.reminderLabels[i] # ""
                       /\ toLowerCase(codes.reminderLabels[i]) = normalized}
       IN IF found # {}
          THEN {codes.reminderOffsets[CHOOSE i \in found : \A j \in found : i <= j]}
          ELSE parseInt(label)

\* Codes.offsetToLabel: the label configured for the offset, else the default
\* one; '' for null.
offsetToLabel(codes, offset) ==
  IF offset = {} THEN ""
  ELSE LET n == CHOOSE m \in offset : TRUE
           at == {i \in 1..Len(codes.reminderOffsets) : codes.reminderOffsets[i] = n}
           index == IF at = {} THEN 0 ELSE CHOOSE i \in at : \A j \in at : i <= j
       IN IF index # 0 /\ codes.reminderLabels[index] # ""
          THEN codes.reminderLabels[index]
          ELSE buildDefaultReminderLabel(n)

\* The reminder rows of a Codes sheet.
CodesRows == [offset : OffsetCells, label : LabelCells]
CodesSheets == {<<a>> : a \in CodesRows} \cup {<<a, b>> : a, b \in CodesRows}

\* The helper calls looked at on their own.
Args ==
  [fn : {"next"}, cfg : AllocConfigs, deadline : Deadlines, startMonth : StartMonths]
  \cup [fn : {"validate"}, env : Environments]
  \cup [fn : {"validateProjectData"}, project : ProjectData]
  \cup [fn : {"processReadyProject"}, p : ReadyRows, cfg : MailConfigs, fault : Faults,
         mailDown : BOOLEAN]
  \cup [fn : {"processDeleteRequest"}, p : DeleteRows, cfg : MailConfigs, fault : Faults,
         mailDown : BOOLEAN]
  \cup [fn : {"processUpdatedProject"}, project : UpdatedProjects, event : CalendarEvents,
         emailTemplateUpdate : BOOLEAN, fault : {"none", "calendar"}]
  \cup [fn : {"detectChanges"}, data : SnapshotData, projects : StatusRows]
  \cup [fn : {"labelToOffset"}, rangeValues : CodesSheets,
         label : LabelCells \cup {"3 weeks before", "7 days before"}]
  \cup [fn : {"offsetToLabel"}, rangeValues : CodesSheets, offset : {1, 3, 7, 21}]
  \cup [fn : {"withBackoff"},
         operation : {"createFolder", "makeCopy", "createAllDayEvent", "sendEmail"},
         outcomes : [1..attempts -> AttemptOutcomes]]
  \cup [fn : {"refreshAllPermissions"}, drive : Drives,
         accessRows : {<<a>> : a \in AccessRowsOfAnn} \cup {<<a, AccessRowOfBob>> : a \in AccessRowsOfAnn},
         project : SharedProjects, ownerEmail : {"own@", "ann@"}]
  \cup [fn : {"sendReminders"},
         projects : {<<p>> : p \in ReminderRows}
                      \cup {<<p, q>> : p \in ReminderRows, q \in OtherRows}]

PureInit == EmptySheet /\ arg \in Args /\ ret = NotReturned

\* processReadyProject's call of the allocator for a row without an id: the
\* school year is inferred from the deadline and handed to next().
CallNext ==
  /\ arg.fn = "next"
  /\ ret = NotReturned
  /\ ret' = LET schoolYear == inferSchoolYear(arg.deadline, arg.startMonth)
                a == IdAllocator_next(arg.cfg)
            IN [threw |-> a.threw, id |-> a.id, cfg |-> a.cfg, schoolYear |-> schoolYear]
  /\ UNCHANGED <<arg, store, guard, config, lock, pc, mem, sentNew, nFolders, nFiles,
                 nEvents, nMails, unlockedAccess, failures, edits, deleteAsked,
                 tracking, snapshotSheet, digested, now, outbox>>

\* ctx.validate() at the start of an entry point's try block.
CallValidate ==
  /\ arg.fn = "validate"
  /\ ret = NotReturned
  /\ ret' = ExecutionContext_validate(arg.env)
  /\ UNCHANGED <<arg, store, guard, config, lock, pc, mem, sentNew, nFolders, nFiles,
                 nEvents, nMails, unlockedAccess, failures, edits, deleteAsked,
                 tracking, snapshotSheet, digested, now, outbox>>

\* The head of processReadyProject: the row is validated and, when it fails,
\* the message of the "Project Validation Failed" notification is built.
CallValidateProjectData ==
  /\ arg.fn = "validateProjectData"
  /\ ret = NotReturned
  /\ ret' = LET validation == validateProjectData(arg.project)
            IN [valid |-> validation.valid,
                errors |-> validation.errors,
                errorMessage |-> IF validation.valid THEN <<>>
                                 ELSE buildErrorMessage("Project failed validation",
                                                        validation.errors)]
  /\ UNCHANGED <<arg, store, guard, config, lock, pc, mem, sentNew, nFolders, nFiles,
                 nEvents, nMails, unlockedAccess, failures, edits, deleteAsked,
                 tracking, snapshotSheet, digested, now, outbox>>

\* processReadyProjects hands one Ready row to processReadyProject.
CallProcessReadyProject ==
  /\ arg.fn = "processReadyProject"
  /\ ret = NotReturned
  /\ ret' = processReadyProject(arg.p, arg.cfg, CountsOf(arg.p), arg.fault, arg.mailDown)
  /\ UNCHANGED <<arg, store, guard, config, lock, pc, mem, sentNew, nFolders, nFiles,
                 nEvents, nMails, unlockedAccess, failures, edits, deleteAsked,
                 tracking, snapshotSheet, digested, now, outbox>>

\* processDeleteRequests hands one delete request to processDeleteRequest.
CallProcessDeleteRequest ==
  /\ arg.fn = "processDeleteRequest"
  /\ ret = NotReturned
  /\ ret' = processDeleteRequest(arg.p, arg.cfg, CountsOf(arg.p), arg.fault, arg.mailDown)
  /\ UNCHANGED <<arg, store, guard, config, lock, pc, mem, sentNew, nFolders, nFiles,
                 nEvents, nMails, unlockedAccess, failures, edits, deleteAsked,
                 tracking, snapshotSheet, digested, now, outbox>>

\* What processUpdatedProject leaves behind for a row with a calendar event
\* id: the snapshot taken first, the event after updateCalendarEvent (which
\* rethrows what the calendar throws at an event it found), the status after
\* setAutomationStatus, the changes detected and the mail sent.
UpdateOutcome(a) ==
  LET beforeState == getCalendarEventSnapshot(a.event, a.fault)
      threw == a.fault = "calendar"
      changes == detectProjectChanges(beforeState, a.project)
  IN [beforeState |-> beforeState,
      event |-> IF threw THEN a.event ELSE updateCalendarEvent(a.event, a.project),
      error |-> threw,
      status |-> IF threw THEN UPDATED ELSE CREATED,
      changes |-> IF threw THEN NoChanges ELSE changes,
      mail |-> IF threw THEN NoMail
               ELSE sendUpdateNotification(a.project, changes, a.emailTemplateUpdate)]

\* processUpdatedProjects hands one Updated row to processUpdatedProject.
CallProcessUpdatedProject ==
  /\ arg.fn = "processUpdatedProject"
  /\ ret = NotReturned
  /\ ret' = UpdateOutcome(arg)
  /\ UNCHANGED <<arg, store, guard, config, lock, pc, mem, sentNew, nFolders, nFiles,
                 nEvents, nMails, unlockedAccess, failures, edits, deleteAsked,
                 tracking, snapshotSheet, digested, now, outbox>>

\* detectAndNotifyStatusChanges reads the current statuses and has them
\* compared with the Status Snapshot sheet.
CallRefreshAllPermissions ==
  /\ arg.fn = "refreshAllPermissions"
  /\ ret = NotReturned
  /\ ret' = refreshAllPermissions(arg.drive, arg.accessRows, arg.project, arg.ownerEmail)
  /\ UNCHANGED <<arg, store, guard, config, lock, pc, mem, sentNew, nFolders, nFiles,
                 nEvents, nMails, unlockedAccess, failures, edits, deleteAsked,
                 tracking, snapshotSheet, digested, now, outbox>>

\* labelToOffset, and offsetToLabel of what it returned.
CallLabelToOffset ==
  /\ arg.fn = "labelToOffset"
  /\ ret = NotReturned
  /\ ret' = LET codes == Codes(arg.rangeValues)
                offset == labelToOffset(codes, arg.label)
            IN [offset |-> offset, label |-> offsetToLabel(codes, offset)]
  /\ UNCHANGED <<arg, store, guard, config, lock, pc, mem, sentNew, nFolders, nFiles,
                 nEvents, nMails, unlockedAccess, failures, edits, deleteAsked,
                 tracking, snapshotSheet, digested, now, outbox>>

CallOffsetToLabel ==
  /\ arg.fn = "offsetToLabel"
  /\ ret = NotReturned
  /\ ret' = [label |-> offsetToLabel(Codes(arg.rangeValues), {arg.offset})]
  /\ UNCHANGED <<arg, store, guard, config, lock, pc, mem, sentNew, nFolders, nFiles,
                 nEvents, nMails, unlockedAccess, failures, edits, deleteAsked,
                 tracking, snapshotSheet, digested, now, outbox>>

CallWithBackoff ==
  /\ arg.fn = "withBackoff"
  /\ ret = NotReturned
  /\ ret' = withBackoff(arg.outcomes, 1)
  /\ UNCHANGED <<arg, store, guard, config, lock, pc, mem, sentNew, nFolders, nFiles,
                 nEvents, nMails, unlockedAccess, failures, edits, deleteAsked,
                 tracking, snapshotSheet, digested, now, outbox>>

CallDetectChanges ==
  /\ arg.fn = "detectChanges"
  /\ ret = NotReturned
  /\ ret' = LET currentStatuses == getStatusMap(arg.projects)
            IN [previousSnapshot |-> loadSnapshot(arg.data),
                currentStatuses |-> currentStatuses,
                changes |-> detectChanges(loadSnapshot(arg.data), currentStatuses)]
  /\ UNCHANGED <<arg, store, guard, config, lock, pc, mem, sentNew, nFolders, nFiles,
                 nEvents, nMails, unlockedAccess, failures, edits, deleteAsked,
                 tracking, snapshotSheet, digested, now, outbox>>

\* runDailyMaintenance has the reminders of the day collected.
CallSendReminders ==
  /\ arg.fn = "sendReminders"
  /\ ret = NotReturned
  /\ ret' = [remindersByAssignee |-> sendReminders(arg.projects, 0)]
  /\ UNCHANGED <<arg, store, guard, config, lock, pc, mem, sentNew, nFolders, nFiles,
                 nEvents, nMails, unlockedAccess, failures, edits, deleteAsked,
                 tracking, snapshotSheet, digested, now, outbox>>

PureNext ==
  \/ CallLabelToOffset
  \/ CallOffsetToLabel
  \/ CallWithBackoff
  \/ CallRefreshAllPermissions
  \/ CallSendReminders
  \/ CallDetectChanges
  \/ CallProcessUpdatedProject
  \/ CallNext
  \/ CallValidate
  \/ CallValidateProjectData
  \/ CallProcessReadyProject
  \/ CallProcessDeleteRequest

PureSpec == PureInit /\ [][PureNext]_vars

\* ------------------------------------------------------------ scheduling
\* A provider that failed fails again: nothing limits how often GmailApp,
\* DriveApp or CalendarApp throw over the life of the spreadsheet, so the count
\* of the failures taken into account starts over.
FailuresRecur ==
  /\ failures > 0
  /\ failures' = 0
  /\ UNCHANGED <<edits, deleteAsked, store, guard, config, lock, pc, mem, sentNew, nFolders, nFiles,
                 nEvents, nMails, unlockedAccess>>
  /\ UNCHANGED <<arg, ret, tracking, snapshotSheet, digested, now, outbox>>

\* The spreadsheet fed by the form only (no row is typed in by hand), with
\* providers that may keep failing.
LiveNext ==
  \/ \E r \in Rows, v \in AUTOMATION_STATUS : ActorSetStatus(r, v)
  \/ RefreshDropdownValidation
  \/ \E i \in Invs : Trigger(i)
  \/ \E i \in Invs : Acquire(i)
  \/ \E i \in Invs : LockTimeout(i)
  \/ \E i \in Invs : AppendFormResponse(i)
  \/ \E i \in Invs : ProcessRow(i)
  \/ \E i \in Invs : RunMaintenance(i)
  \/ \E i \in Invs : Flush(i)
  \/ \E i \in Invs : Release(i)
  \/ \E i \in Invs : FailExecution(i)
  \/ FailuresRecur

\* The time-driven trigger keeps firing processNewProjects and the lock is free
\* again and again, so the batch gets the lock and a valid context infinitely
\* often; a handler that has started runs to its end.
Fairness ==
  /\ SF_vars(Acquire("batch") /\ pc'["batch"] = "work")
  /\ \A i \in Invs :
       WF_vars(LockTimeout(i) \/ AppendFormResponse(i) \/ ProcessRow(i) \/ RunMaintenance(i)
               \/ Flush(i) \/ Release(i) \/ FailExecution(i))

LiveSpec == Init /\ [][LiveNext]_vars /\ Fairness

\* ------------------------------------------------------------ whole runs
\* The entry points taken as single steps, each handler from tryLock to its
\* finally block, next to the people who edit the sheet and the passing days.
\* Every filled row carries its own project id here (the row number stands for
\* the id typed or minted), is due on day 2, has the single reminder offset 1
\* when its reminder cell is filled, and names Ann as assignee when valid.

\* The Project object of row r of a sheet: its cells as the getters of Project
\* return them.
ProjectOf(sheet, cells, r) ==
  [projectId |-> IF sheet[r].id = NoId THEN NoProjectId ELSE ToString(r),
   automationStatus |-> sheet[r].status,
   projectStatus |-> cells[r].projectStatus,
   dueDate |-> 2,
   reminderOffsets |-> IF sheet[r].rem THEN <<1>> ELSE <<>>,
   assignees |-> IF sheet[r].valid THEN <<"Ann">> ELSE <<>>,
   requestedBy |-> "cat@"]

\* ProjectSheet.getProjects: the filled rows in row order.
getProjects(sheet, cells) ==
  LET filled == SelectSeq([k \in 1..MaxRows |-> headerRowCount + k],
                          LAMBDA r : sheet[r].filled)
  IN [k \in 1..Len(filled) |-> ProjectOf(sheet, cells, filled[k])]

\* handleProjectsEdit with a completed_at that is written once and kept.
completedAtOnce(cell, oldValue, newValue, date) ==
  IF newValue = COMPLETE /\ cell.completedAt = 0 THEN date ELSE cell.completedAt

\* handleProjectsEdit: what completed_at holds after project_status was edited
\* from oldValue to newValue at the given time.
completedAtAfterEdit(cell, oldValue, newValue, date) ==
  IF newValue = COMPLETE /\ oldValue # COMPLETE THEN date ELSE cell.completedAt

\* A person picks another value in the project_status dropdown of row r; the
\* onEdit trigger runs handleEdit -> handleProjectsEdit.
EditProjectStatus(r, newValue) ==
  /\ store[r].filled
  /\ edits < MaxEdits
  /\ edits' = edits + 1
  /\ deleteAsked' = deleteAsked
  /\ now < MaxClock
  /\ newValue # tracking[r].projectStatus
  /\ now' = now + 1
  /\ tracking' = [tracking EXCEPT ![r] =
                    [projectStatus |-> newValue,
                     completedAt |-> completedAtAfterEdit(@, @.projectStatus, newValue, now')]]
  /\ digested' = {d \in digested : d.change.projectId # ToString(r)}
  /\ UNCHANGED <<store, guard, config, lock, pc, mem, sentNew, nFolders, nFiles,
                 nEvents, nMails, unlockedAccess, failures, arg, ret, snapshotSheet, outbox>>

\* A day goes by.
DayPasses ==
  /\ now < MaxClock
  /\ now' = now + 1
  /\ UNCHANGED <<store, guard, config, lock, pc, mem, sentNew, nFolders, nFiles,
                 nEvents, nMails, unlockedAccess, failures, edits, deleteAsked, arg, ret, tracking, snapshotSheet, digested, outbox>>

\* MaintenanceService.markLateProjects: the project_status of a project after
\* the pass over getIncompleteProjects.
markLate(project, today) ==
  IF /\ project.projectStatus # COMPLETE
     /\ project.automationStatus # DELETED
     /\ project.automationStatus = CREATED
     /\ project.dueDate <= today
     /\ project.projectStatus # LATE
  THEN LATE ELSE project.projectStatus

markLateProjects(projects, today) ==
  [k \in 1..Len(projects) |-> [projects[k] EXCEPT !.projectStatus = markLate(projects[k], today)]]

\* An overwriteWithCurrent that adds the current entries to the rows the sheet
\* has already.
overwriteKeepingOld(data, currentStatuses) ==
  data \o SelectSeq(currentStatuses, LAMBDA entry : entry[1] # NoProjectId)

\* SnapshotSheet.overwriteWithCurrent: the rows below the header are deleted
\* and one row per entry of the current statuses is written.
overwriteWithCurrent(data, currentStatuses) ==
  SelectSeq(currentStatuses, LAMBDA entry : entry[1] # NoProjectId)

\* MaintenanceService.groupChangesByRecipient: the addresses the digest of the
\* changes goes to, the assignees and the requester of every changed project
\* (findByProjectId finds the project by its id).
digestRecipients(projects, changes) ==
  UNION {getAllRecipientEmails(
           [assigneeEmails |-> Range(resolveAllToEmails(projects[k].assignees)),
            requestedBy |-> projects[k].requestedBy]) :
         k \in {j \in 1..Len(projects) :
                  \E c \in 1..Len(changes) : changes[c].projectId = projects[j].projectId}}

\* Project.getAllRecipientEmails as a list: the assignees that resolve, then
\* the requester, each address once.
RECURSIVE AddNew(_, _)
AddNew(emails, more) ==
  IF more = <<>> THEN emails
  ELSE AddNew(IF Head(more) \in Range(emails) THEN emails ELSE Append(emails, Head(more)),
              Tail(more))

\* The recipients of a change.
recipientEmails(projects, change) ==
  LET found == {j \in 1..Len(projects) : projects[j].projectId = change.projectId}
      project == projects[CHOOSE j \in found : \A k \in found : j <= k]
  IN IF found = {} THEN <<>>
     ELSE AddNew(<<>>, resolveAllToEmails(project.assignees) \o <<project.requestedBy>>)

\* MaintenanceService.groupChangesByRecipient: the recipients in the order the
\* Map received them, which is the order the digests are sent in.
RECURSIVE groupChangesByRecipient(_, _)
groupChangesByRecipient(projects, changes) ==
  IF changes = <<>> THEN <<>>
  ELSE AddNew(groupChangesByRecipient(projects, SubSeq(changes, 1, Len(changes) - 1)),
              recipientEmails(projects, changes[Len(changes)]))

\* The changes in the digests of the first sent recipients.
Delivered(projects, changes, sent) ==
  LET order == groupChangesByRecipient(projects, changes)
  IN UNION {{[to |-> order[k], change |-> changes[c]] :
               c \in {j \in 1..Len(changes) :
                        order[k] \in Range(recipientEmails(projects, changes[j]))}} :
            k \in {j \in 1..Len(order) : j <= sent}}

\* What can go wrong in a sweep: sending a reminder digest, sending the first
\* status digest, sending a later status digest after the first went out, or
\* the weekly backup after the snapshot was written.
SweepFaults == {"none", "reminders", "digest", "laterDigest", "backup"}

\* A sweep that sends its digests and leaves the snapshot as it found it.
runDailyMaintenanceSnapshotKept(projects, data, today, fault) ==
  LET marked == markLateProjects(projects, today)
      currentStatuses == getStatusMap(marked)
      changes == IF Len(data) = 0 THEN <<>>
                 ELSE detectChanges(loadSnapshot(data), currentStatuses)
      order == groupChangesByRecipient(marked, changes)
  IN [threw |-> FALSE, reminders |-> sendReminders(projects, today), digest |-> changes,
      delivered |-> Delivered(marked, changes, Len(order)),
      data |-> IF Len(data) = 0 THEN overwriteWithCurrent(data, currentStatuses) ELSE data,
      projects |-> marked]

\* MaintenanceService.runDailyMaintenance followed by ctx.flush() of the entry
\* point: reminders, late marking, status digest and snapshot (calendar sync
\* logs what it cannot do); what one of the tasks throws is rethrown and the
\* flush is skipped.
runDailyMaintenance(projects, data, today, fault) ==
  LET reminders == sendReminders(projects, today)
      marked == markLateProjects(projects, today)
      currentStatuses == getStatusMap(marked)
      changes == IF Len(data) = 0 THEN <<>>
                 ELSE detectChanges(loadSnapshot(data), currentStatuses)
      order == groupChangesByRecipient(marked, changes)
      failed == [threw |-> TRUE, reminders |-> <<>>, digest |-> <<>>, delivered |-> {},
                 data |-> data, projects |-> projects]
  IN CASE fault = "reminders" /\ reminders # <<>> -> failed
       [] fault = "digest" /\ digestRecipients(marked, changes) # {} ->
            [failed EXCEPT !.reminders = reminders]
       [] fault = "laterDigest" /\ Len(order) >= 2 ->
            [failed EXCEPT !.reminders = reminders,
                           !.digest = SelectSeq(changes,
                                        LAMBDA c : order[1] \in Range(recipientEmails(marked, c))),
                           !.delivered = Delivered(marked, changes, 1)]
       [] fault = "backup" ->
            [failed EXCEPT !.reminders = reminders, !.digest = changes,
                           !.delivered = Delivered(marked, changes, Len(order)),
                           !.data = overwriteWithCurrent(data, currentStatuses)]
       [] OTHER ->
            [threw |-> FALSE, reminders |-> reminders, digest |-> changes,
             delivered |-> Delivered(marked, changes, Len(order)),
             data |-> overwriteWithCurrent(data, currentStatuses), projects |-> marked]

\* The project ids a set of reminders or of status changes is about.
About(entries) == {entry.projectId : entry \in entries}

\* The entry point runDailyMaintenance from tryLock to releaseLock.
RunDaily ==
  /\ lock = "free"
  /\ \E fault \in SweepFaults :
       LET projects == getProjects(store, tracking)
           out == runDailyMaintenance(projects, snapshotSheet, now, fault)
           filled == SelectSeq([k \in 1..MaxRows |-> headerRowCount + k],
                               LAMBDA r : store[r].filled)
       IN /\ fault # "none" => failures < MaxFailures /\ out.threw
          /\ failures' = failures + (IF fault = "none" THEN 0 ELSE 1)
          /\ snapshotSheet' = out.data
          /\ tracking' = [r \in Rows |->
                            IF \E k \in 1..Len(filled) : filled[k] = r
                            THEN [tracking[r] EXCEPT !.projectStatus =
                                    out.projects[CHOOSE k \in 1..Len(filled) : filled[k] = r]
                                      .projectStatus]
                            ELSE tracking[r]]
          /\ outbox' = [run |-> "maint", threw |-> out.threw, handled |-> {},
                        reminded |-> About(UNION {Range(out.reminders[k][2]) :
                                                    k \in 1..Len(out.reminders)}),
                        digest |-> About(Range(out.digest)),
                        delivered |-> out.delivered]
          /\ digested' = {[e EXCEPT !.settled = @ /\ ~out.threw] : e \in digested} \cup
                           {[to |-> d.to, change |-> d.change,
                             settled |-> ~out.threw] : d \in out.delivered}
  /\ UNCHANGED <<store, guard, config, lock, pc, mem, sentNew, nFolders, nFiles,
                 nEvents, nMails, unlockedAccess, edits, deleteAsked, arg, ret, now>>

\* The rows an entry point works through: getReadyProjects for both, then
\* getUpdatedProjects and getPendingDeleteProjects for the batch, each in row
\* order, over the Project objects of the run.
PendingOf(rows, i) ==
  LET having(S) == {r \in Rows : rows[r].filled /\ rows[r].status \in S}
  IN IF having({READY}) # {} THEN {First(having({READY}))}
     ELSE IF i = "batch" /\ having({UPDATED}) # {} THEN {First(having({UPDATED}))}
     ELSE IF i = "batch" /\ having({DELETE_NOTIFY, DELETE_NO_NOTIFY}) # {}
     THEN {First(having({DELETE_NOTIFY, DELETE_NO_NOTIFY}))}
     ELSE {}

\* processReadyProject got as far as "Set initial project status": the event
\* step of a valid Ready row did not throw.
ReachedProjectStatus(p, cfg, n, fault, mailDown) ==
  /\ p.status = READY
  /\ p.valid
  /\ ~EnsureEvent(
        ShareFolder(
          EnsureFile(EnsureFolder(MintId(Start(p, cfg, n)), fault), fault),
          fault, mailDown),
        fault).error

\* The loops of processReadyProjects, processUpdatedProjects and
\* processDeleteRequests of invocation i, run until no row is left or a catch
\* block throws; the provider call named by fault fails for row bad.
RECURSIVE RunRows(_, _, _, _, _)
RunRows(run, i, bad, fault, mailDown) ==
  IF run.threw \/ PendingOf(run.rows, i) = {} THEN run
  ELSE LET r == First(PendingOf(run.rows, i))
           f == IF r = bad THEN fault ELSE "none"
           out == HandleRow(run.rows[r], run.cfg, run.n[r], f, mailDown)
       IN RunRows([rows |-> [run.rows EXCEPT ![r] = out.row],
                   cfg |-> out.cfg,
                   n |-> [run.n EXCEPT ![r] = out.n],
                   handled |-> run.handled \cup {r},
                   assigned |-> run.assigned \cup
                     (IF ReachedProjectStatus(run.rows[r], run.cfg, run.n[r], f, mailDown)
                      THEN {r} ELSE {}),
                   threw |-> out.threw],
                  i, bad, fault, mailDown)

\* What a run leaves behind: the dropdown of every handled row was rewritten
\* when its status was set, the providers keep what was created, and
\* ctx.flush() writes the dirty cells and hides the rows of the handled delete
\* requests unless the run ended with an error.
Settle(i, sheet, run) ==
  /\ guard' = [r \in Rows |->
                 IF r \in run.handled THEN getAllowedStatusValues(run.rows[r].status)
                 ELSE IF sheet[r] # store[r] THEN getAllowedStatusValues(READY)
                 ELSE guard[r]]
  /\ config' = run.cfg
  /\ nFolders' = [r \in Rows |-> run.n[r].folders]
  /\ nFiles' = [r \in Rows |-> run.n[r].files]
  /\ nEvents' = [r \in Rows |-> run.n[r].events]
  /\ nMails' = [r \in Rows |-> run.n[r].mails]
  /\ store' = IF run.threw THEN sheet
              ELSE [r \in Rows |->
                      FlushRow(sheet[r],
                               [cur |-> run.rows[r], dirty |-> Changed(sheet[r], run.rows[r]),
                                pendingHide |-> r \in run.handled
                                                /\ run.rows[r].status = DELETED])]
  /\ outbox' = [run |-> i, threw |-> run.threw, handled |-> run.handled,
                reminded |-> {}, digest |-> {}, delivered |-> {}]

\* The entry point processNewProjects from tryLock to releaseLock.
RunBatch ==
  /\ lock = "free"
  /\ \E bad \in Rows, fault \in Faults, mailDown \in BOOLEAN :
       LET run == RunRows([rows |-> store, cfg |-> config, n |-> [r \in Rows |-> Counts(r)],
                           handled |-> {}, assigned |-> {}, threw |-> FALSE],
                          "batch", bad, fault, mailDown)
       IN /\ PendingOf(store, "batch") # {}
          /\ failures + Failing(fault, mailDown) <= MaxFailures
          /\ IF fault = "none" THEN bad = First(Rows) ELSE bad \in run.handled
          /\ failures' = failures + Failing(fault, mailDown)
          /\ Settle("batch", store, run)
          /\ tracking' = [r \in Rows |->
                            IF ~run.threw /\ r \in run.assigned /\ tracking[r].projectStatus = ""
                            THEN [tracking[r] EXCEPT !.projectStatus = PROJECT_ASSIGNED]
                            ELSE tracking[r]]
  /\ UNCHANGED <<lock, pc, mem, sentNew, unlockedAccess, edits, deleteAsked, arg, ret, snapshotSheet, digested, now>>

\* The entry point handleFormSubmission from tryLock to releaseLock: the
\* submission is appended as a Ready row with the project status "Project
\* Assigned", then the Ready rows are processed.
RunIntake ==
  /\ lock = "free"
  /\ FreeRows # {}
  /\ edits < MaxEdits
  /\ edits' = edits + 1
  /\ deleteAsked' = deleteAsked
  /\ \E valid \in BOOLEAN, bad \in Rows, fault \in Faults, mailDown \in BOOLEAN :
       LET new == LastRowPlusOne
           sheet == [store EXCEPT ![new] =
                       [EmptyRow EXCEPT !.filled = TRUE, !.status = READY, !.valid = valid]]
           run == RunRows([rows |-> sheet, cfg |-> config, n |-> [r \in Rows |-> Counts(r)],
                           handled |-> {}, assigned |-> {}, threw |-> FALSE],
                          "intake", bad, fault, mailDown)
       IN /\ failures + Failing(fault, mailDown) <= MaxFailures
          /\ IF fault = "none" THEN bad = First(Rows) ELSE bad \in run.handled
          /\ failures' = failures + Failing(fault, mailDown)
          /\ Settle("intake", sheet, run)
          /\ tracking' = [r \in Rows |->
                            IF r = new
                            THEN [tracking[r] EXCEPT !.projectStatus = PROJECT_ASSIGNED]
                            ELSE IF ~run.threw /\ r \in run.assigned
                                    /\ tracking[r].projectStatus = ""
                            THEN [tracking[r] EXCEPT !.projectStatus = PROJECT_ASSIGNED]
                            ELSE tracking[r]]
  /\ UNCHANGED <<lock, pc, mem, sentNew, unlockedAccess, arg, ret, snapshotSheet, digested, now>>

MaintNext ==
  \/ ActorAddRow
  \/ \E r \in Rows, v \in AUTOMATION_STATUS : ActorSetStatus(r, v)
  \/ \E r \in Rows, v \in {ON_TRACK, COMPLETE} : EditProjectStatus(r, v)
  \/ DayPasses
  \/ RunBatch
  \/ RunIntake
  \/ RunDaily

\* The sheet when the runs are followed is in use: its first row was typed in
\* by hand with a project id, set to Ready and processed by a batch that met no
\* failure; every template of the Config sheet is filled in.
MaintInit ==
  \E cfg \in {c \in Configs : c.emailTemplateNewProject}, rem \in BOOLEAN :
       LET first == First(Rows)
           typed == [EmptyRow EXCEPT !.filled = TRUE, !.status = READY, !.id = ManualId,
                                     !.valid = TRUE, !.rem = rem]
           out == HandleRow(typed, cfg, [folders |-> 0, files |-> 0, events |-> 0, mails |-> 0],
                            "none", FALSE)
       IN /\ store = [r \in Rows |-> IF r = first THEN out.row ELSE EmptyRow]
          /\ guard = [r \in Rows |-> IF r = first THEN getAllowedStatusValues(out.row.status)
                                     ELSE {READY}]
          /\ config = out.cfg
          /\ nFolders = [r \in Rows |-> IF r = first THEN out.n.folders ELSE 0]
          /\ nFiles = [r \in Rows |-> IF r = first THEN out.n.files ELSE 0]
          /\ nEvents = [r \in Rows |-> IF r = first THEN out.n.events ELSE 0]
          /\ nMails = [r \in Rows |-> IF r = first THEN out.n.mails ELSE 0]
          /\ tracking = [r \in Rows |->
                           IF r = first THEN [NoTracking EXCEPT !.projectStatus = PROJECT_ASSIGNED]
                           ELSE NoTracking]
          /\ lock = "free"
          /\ pc = [i \in Invs |-> "idle"]
          /\ mem = [i \in Invs |-> NotLoaded]
          /\ sentNew = [i \in Invs |-> {}]
          /\ unlockedAccess = FALSE
          /\ failures = 0
          /\ edits = 0
          /\ deleteAsked = {}
          /\ snapshotSheet = <<>>
          /\ digested = {}
          /\ now = 0
          /\ outbox = NoRun
          /\ arg = NoCall
          /\ ret = NoCall

MaintSpec == MaintInit /\ [][MaintNext]_vars

\* ------------------------------------------------------------ properties
\* The four idempotency fields of a row and whether one is filled in.
ArtifactFields == {"id", "folderId", "fileId", "eventId"}
Populated(row, f) == IF f = "id" THEN row.id # NoId ELSE row[f] # 0
AllPreExisted(row) == \A f \in ArtifactFields : Populated(row, f)

\* Invocation i is between lock acquisition and release.
Holding(i) == pc[i] \in {"append", "maint", "work", "catch"}

\* C1: over any run of batch and intake invocations, provider failures, aborted
\* invocations and Error -> Ready retries, at most one folder, one template copy
\* and one calendar event is ever created for a row.
C1_AtMostOneArtifactPerRow ==
  \A r \in Rows : nFolders[r] <= 1 /\ nFiles[r] <= 1 /\ nEvents[r] <= 1

\* C2: processing a Ready row creates a folder, a file or an event only when the
\* corresponding field was empty when the run loaded the row; a field that was
\* populated keeps its value, in the Project object and in the sheet.
C2_OnlyEmptyFieldsFilled ==
  [][\A r \in Rows :
       /\ nFolders'[r] # nFolders[r] =>
            \E i \in Invs : /\ pc[i] = "work"
                            /\ mem[i][r].orig.status = READY
                            /\ mem[i][r].orig.folderId = 0
       /\ nFiles'[r] # nFiles[r] =>
            \E i \in Invs : /\ pc[i] = "work"
                            /\ mem[i][r].orig.status = READY
                            /\ mem[i][r].orig.fileId = 0
       /\ nEvents'[r] # nEvents[r] =>
            \E i \in Invs : /\ pc[i] = "work"
                            /\ mem[i][r].orig.status = READY
                            /\ mem[i][r].orig.eventId = 0
       /\ \A i \in Invs, f \in ArtifactFields :
            (/\ pc[i] = "work"
             /\ pc'[i] # "idle"
             /\ mem[i][r].orig.status = READY
             /\ Populated(mem[i][r].orig, f))
            => mem'[i][r].cur[f] = mem[i][r].orig[f]
       /\ \A f \in ArtifactFields :
            Populated(store[r], f) => store'[r][f] = store[r][f]
    ]_vars

\* A Ready row whose id, folder, file and event all pre-existed has been
\* processed to Created: nothing but the status was written and the providers
\* still hold one artifact of each kind.
C2_ResumeCreatesNothing ==
  \E i \in Invs, r \in Rows :
    /\ pc[i] = "work"
    /\ mem[i][r].orig.status = READY
    /\ AllPreExisted(mem[i][r].orig)
    /\ mem[i][r].cur.status = CREATED
    /\ mem[i][r].dirty = {"status"}
    /\ nFolders[r] = 1 /\ nFiles[r] = 1 /\ nEvents[r] = 1

\* The processor edges of the transition table, with the intake normalizer's
\* blank -> Ready.
ProcessorEdges ==
  {<<BLANK, READY>>, <<READY, CREATED>>, <<READY, ERROR>>, <<UPDATED, CREATED>>,
   <<DELETE_NOTIFY, DELETED>>, <<DELETE_NO_NOTIFY, DELETED>>}

\* C3: every automation status an invocation writes to a row follows a processor
\* edge of the transition table: Ready -> Created, Ready -> Error,
\* Updated -> Created, Delete (Notify) / Delete (Don't Notify) -> Deleted.
C3_OnlyTableEdges ==
  [][\A i \in Invs, r \in Rows :
       (pc[i] = "work" /\ mem'[i][r].cur.status # mem[i][r].cur.status)
       => <<mem[i][r].cur.status, mem'[i][r].cur.status>> \in ProcessorEdges
    ]_vars

\* The user-selectable targets of the transition table.
TableTargets(s) ==
  CASE s = BLANK -> {READY}
    [] s = CREATED -> {UPDATED, DELETE_NOTIFY, DELETE_NO_NOTIFY}
    [] s = ERROR -> {READY}
    [] OTHER -> {}

\* The targets together with the row's current value.
TargetsAndCurrent(s) == TableTargets(s) \cup (IF s = BLANK THEN {} ELSE {s})

LockedStates == {READY, UPDATED, DELETE_NOTIFY, DELETE_NO_NOTIFY, DELETED}

\* C5: whenever the stored status of a row is Ready, Updated, a delete request
\* or Deleted, the list installed on the row permits the current value alone.
C5_LockedRowsLocked ==
  \A r \in Rows :
    (store[r].filled /\ store[r].status \in LockedStates)
    => guard[r] = {store[r].status}

\* C6: a failure in the handling of one row never stops the batch: the batch
\* leaves its loops only when no row is left to handle, and then its field
\* writes are flushed.
C6_FailureNeverStopsBatch ==
  [][(pc["batch"] = "work" /\ pc'["batch"] # "work")
     => /\ Pending("batch") = {}
        /\ \A r \in Rows : mem'["batch"][r].dirty = {}
        /\ \A r \in Rows : \A f \in mem["batch"][r].dirty :
             store'[r][f] = mem["batch"][r].cur[f]
    ]_vars

C8_EveryCallReturnsId ==
  \A i \in Invs, r \in Rows :
    (/\ mem[i][r].orig.status = READY
     /\ mem[i][r].orig.valid
     /\ mem[i][r].cur.status # READY)
    => mem[i][r].cur.id # NoId

\* C9: at most one of the batch, maintenance and intake invocations is between
\* lock acquisition and release, that one holds the lock, and no invocation has
\* touched the Projects sheet without holding it.
C9_LockDiscipline ==
  /\ \A i, j \in Invs : (Holding(i) /\ Holding(j)) => i = j
  /\ \A i \in Invs : Holding(i) => lock = i
  /\ ~unlockedAccess

\* The batch is at work on the sheet while a form submission waits for the lock.
C9_ContendedLock ==
  /\ pc["batch"] = "work"
  /\ lock = "batch"
  /\ pc["intake"] = "waiting"
  /\ \E r \in Rows : mem["batch"][r].dirty # {}

\* C10: an invocation that acquired the lock holds it until it exits and frees
\* it when it exits, whichever way it exits; an invocation that did not acquire
\* it leaves the lock as it is.
C10_ReleaseIffAcquired ==
  [][\A i \in Invs :
       /\ (Holding(i) /\ pc'[i] = "idle") => (lock = i /\ lock' = "free")
       /\ (Holding(i) /\ pc'[i] # "idle") => lock' = lock
       /\ (pc[i] = "waiting" /\ pc'[i] \in {"idle", "raised"}) => (lock # i /\ lock' = lock)
    ]_vars

\* An invocation is leaving on the error path, its writes unflushed, with the
\* lock still in hand, while another one waits for the lock.
C10_ExitOnErrorPath ==
  \E i, j \in Invs :
    /\ pc[i] = "catch"
    /\ lock = i
    /\ \E r \in Rows : mem[i][r].dirty # {}
    /\ pc[j] = "waiting"

\* C11: when the lock is not obtained within the wait, the batch and the daily
\* maintenance return without raising and without reading or changing the
\* sheet, the intake raises an error, and no invocation goes on to work on the
\* sheet without the lock.
C11_TimeoutOutcome ==
  [][\A i \in Invs :
       /\ (pc[i] = "waiting" /\ lock # "free" /\ pc'[i] # "waiting") =>
            /\ pc'[i] = (IF i = "intake" THEN "raised" ELSE "idle")
            /\ mem'[i] = NotLoaded
            /\ store' = store /\ guard' = guard /\ config' = config /\ lock' = lock
       /\ (pc[i] = "raised" /\ pc'[i] # "raised") =>
            (pc'[i] = "idle" /\ mem'[i] = NotLoaded /\ store' = store /\ lock' = lock)
       /\ Holding(i)' => lock' = i
    ]_vars

\* A form submission has run out of its wait and is raising its error while the
\* batch, mid-work, keeps the lock.
C11_IntakeRaisedOnTimeout ==
  /\ pc["intake"] = "raised"
  /\ lock = "batch"
  /\ pc["batch"] = "work"
  /\ mem["intake"] = NotLoaded

\* C12: with the batch trigger scheduled fairly and the lock free again and
\* again, every row that is Ready in the sheet eventually leaves Ready, even
\* when some runs are skipped because the lock was held.
C12_ReadyEventuallyLeaves ==
  \A r \in Rows :
    (store[r].filled /\ store[r].status = READY) ~> (store[r].status # READY)

\* C13: a form submission is never dropped by an intake that returns normally.
\* The intake gets to its row processing only through the append, the append
\* stores a Ready row for the submission at once, a stored row with a status
\* stays one, and an intake ends either with an error or after a flush that
\* comes when no row is Ready any more and writes every status it changed.
C13_SubmissionStoredOrRaised ==
  [][/\ (pc["intake"] # "work" /\ pc'["intake"] = "work") => pc["intake"] = "append"
     /\ (pc["intake"] = "append" /\ pc'["intake"] # "append") =>
          /\ pc'["intake"] = "work"
          /\ \E r \in Rows : /\ ~store[r].filled
                             /\ store'[r].filled
                             /\ store'[r].status = READY
                             /\ mem'["intake"][r].cur.status = READY
     /\ \A r \in Rows : (store[r].filled /\ store[r].status # BLANK) =>
                           (store'[r].filled /\ store'[r].status # BLANK)
     /\ (pc["intake"] # "idle" /\ pc'["intake"] = "idle") =>
          \/ pc["intake"] \in {"catch", "raised"}
          \/ /\ pc["intake"] = "work"
             /\ \A r \in Rows : mem["intake"][r].cur.status # READY
             /\ \A r \in Rows : "status" \in mem["intake"][r].dirty =>
                                   (store'[r].filled /\ store'[r].status = mem["intake"][r].cur.status)
    ]_vars

\* The intake has stored the submission as a Ready row, has handled it and is
\* about to flush and return.
C13_SubmissionHandled ==
  /\ pc["intake"] = "work"
  /\ Pending("intake") = {}
  /\ \E r \in Rows : /\ store[r].status = READY
                     /\ mem["intake"][r].cur.status = ERROR
                     /\ ~mem["intake"][r].cur.valid

\* C14: the allocator returns district, school-year bucket and serial padded to
\* four digits, the bucket being the one its caller inferred from the row's
\* deadline and the configured start month, the serial the stored counter at
\* the time of the call.
C14_IdFromCallerBucket ==
  (arg.fn = "next" /\ ret # NotReturned /\ arg.cfg.districtId # "") =>
    /\ ~ret.threw
    /\ ret.id = <<arg.cfg.districtId, inferSchoolYear(arg.deadline, arg.startMonth),
                  padNumber(Config_nextSerial(arg.cfg), 4)>>

C16_AllConfigProblemsRaised ==
  (arg.fn = "validate" /\ ret # NotReturned) =>
    LET env == arg.env
        times(list, key) == Cardinality({k \in 1..Len(list) : list[k] = key})
        named == UNION {ret.errors[k][2] : k \in 1..Len(ret.errors)}
        problems == {key \in Range(REQUIRED_CONFIG_KEYS) : times(env.configKeys, key) # 1}
                    \cup {c \in Range(REQUIRED_PROJECT_COLUMNS) : times(env.columnKeys, c) # 1}
                    \cup env.unreachable
    IN problems # {} => (ret.threw /\ (env.columnKeys # <<>> => problems \subseteq named))

\* The required fields of a row that fail: the title or the deadline missing,
\* a requester that does not resolve, no assignee that resolves.
FailingFields(project) ==
  {f \in {"Project Title", "Deadline (Due Date)", "Requested By", "Assignee"} :
     \/ f = "Project Title" /\ ~project.projectName
     \/ f = "Deadline (Due Date)" /\ ~project.dueDate
     \/ f = "Requested By" /\ ~resolveToEmail(project.requestedBy)
     \/ f = "Assignee" /\ \A k \in 1..Len(project.assignees) :
                               ~resolveToEmail(project.assignees[k])}

\* C17: a Ready row passes validation exactly when its name and due date are
\* present, its requester resolves and at least one of its assignees resolves.
C17_ValidIffRequiredFieldsResolve ==
  (arg.fn = "validateProjectData" /\ ret # NotReturned) =>
    (ret.valid <=> FailingFields(arg.project) = {})

\* C18: validation reports every failing required field in the one error: the
\* message built for a failing row names each of them.
C18_EveryFailingFieldListed ==
  (arg.fn = "validateProjectData" /\ ret # NotReturned /\ ~ret.valid) =>
    FailingFields(arg.project)
      \subseteq {ret.errorMessage[k][2] : k \in 2..Len(ret.errorMessage)}

\* A row without a due date and without an assignee that resolves has been
\* validated, and both problems are in its message.
C18_TwoProblemsListed ==
  /\ arg.fn = "validateProjectData"
  /\ ret # NotReturned
  /\ FailingFields(arg.project) = {"Deadline (Due Date)", "Assignee"}
  /\ Len(arg.project.assignees) > 0
  /\ Len(ret.errorMessage) = 3

\* C19: when a Ready row fails validation no id is allocated, the serial stays
\* as it is, no folder, file, event or sharing grant is made; all that happens
\* is the row's status becoming Error and the error report.
C19_FailedValidationOnlyMarksError ==
  (arg.fn = "processReadyProject" /\ ret # NotReturned /\ ~arg.p.valid) =>
    /\ ret.row = [arg.p EXCEPT !.status = ERROR]
    /\ ret.cfg = arg.cfg
    /\ ret.n = CountsOf(arg.p)
    /\ ~ret.mailed
    /\ ret.log \in {<<"Error">>, <<"Error", "report">>}
    /\ ret.log = <<"Error">> <=> arg.mailDown

\* A row without an id that fails validation has been handled and reported.
C19_InvalidRowReported ==
  /\ arg.fn = "processReadyProject"
  /\ ret # NotReturned
  /\ ~arg.p.valid
  /\ arg.p.id = NoId
  /\ ret.log = <<"Error", "report">>

\* Where in a log something was done (0 when it was not).
At(log, what) ==
  IF \E k \in 1..Len(log) : log[k] = what
  THEN CHOOSE k \in 1..Len(log) : log[k] = what
  ELSE 0

\* What C20 says of the order of a delete request: the event, when the row has
\* one and the calendar answers, is cancelled first, and a notice that is sent
\* is sent before the status becomes Deleted.
DeleteOrder(p, fault, log) ==
  /\ (p.eventId # 0 /\ fault \notin {"calendar", "absent"}) => At(log, "cancel") = 1
  /\ At(log, "cancel") \in {0, 1}
  /\ (At(log, "notice") # 0 /\ At(log, "Deleted") # 0) => At(log, "notice") < At(log, "Deleted")

C21_AbsentEventIsSuccess ==
  (arg.fn = "processDeleteRequest" /\ ret # NotReturned
     /\ arg.p.eventId # 0 /\ arg.fault = "absent") =>
    /\ At(ret.log, "report") = 0
    /\ At(ret.log, "cancel") = 0
    /\ ret.error =>
         (arg.mailDown /\ arg.p.status = DELETE_NOTIFY
            /\ arg.cfg.emailTemplateCancellation /\ arg.p.valid)
    /\ ~ret.error => (ret.row.status = DELETED /\ ret.log[Len(ret.log)] = "Deleted")

\* A delete request for a row whose event is gone went through to Deleted.
C21_DeletedWithoutEvent ==
  /\ arg.fn = "processDeleteRequest"
  /\ ret # NotReturned
  /\ arg.p.eventId # 0
  /\ arg.fault = "absent"
  /\ ret.row.status = DELETED
  /\ ~ret.error

\* C22: a row becomes hidden only in the flush of an invocation that moved the
\* row to Deleted itself, and in the sheet that flush leaves behind every dirty
\* cell of the invocation is written, the row's Deleted status among them; a
\* step that writes no dirty cells hides nothing.
C22_HiddenOnlyWithFlushedDelete ==
  [][\A r \in Rows :
       (~store[r].hidden /\ store'[r].hidden) =>
         \E i \in Invs :
           /\ pc[i] = "work" /\ pc'[i] = "idle"
           /\ mem[i][r].orig.status # DELETED
           /\ mem[i][r].cur.status = DELETED
           /\ "status" \in mem[i][r].dirty
           /\ store'[r].status = DELETED
           /\ \A q \in Rows : \A f \in mem[i][q].dirty : store'[q][f] = mem[i][q].cur[f]]_vars

\* A row that a batch run moved to Deleted is hidden in the sheet.
C22_DeletedRowHidden ==
  \E r \in Rows : store[r].hidden /\ store[r].status = DELETED /\ pc["batch"] = "idle"

\* ------------------------------------------------------------ updated rows
\* The Updated rows whose mail has the same content as the mail of a.
SameMail(a) ==
  {b \in {x \in Args : x.fn = "processUpdatedProject"} : UpdateOutcome(b).mail = UpdateOutcome(a).mail}

\* C23: processing an Updated row whose event the calendar has captures the
\* event's title, date and guests as they were before the event is changed,
\* ends with the row in Created, and sends an update notification from whose
\* content the diff between the capture and the record can be read: two rows
\* with different diffs never get the same mail.
C23_UpdateMailCarriesDiff ==
  (arg.fn = "processUpdatedProject" /\ ret # NotReturned /\ ~ret.error /\ arg.event.found) =>
    /\ ret.beforeState = [title |-> arg.event.title, date |-> arg.event.date,
                          guestEmails |-> arg.event.guests]
    /\ ret.status = CREATED
    /\ (arg.emailTemplateUpdate /\ arg.project.assigneeEmails # {}) =>
         /\ ret.mail # NoMail
         /\ \A b \in SameMail(arg) : UpdateOutcome(b).changes = ret.changes

\* ------------------------------------------------------------ guards after a run
\* C24: when a batch or intake invocation ends, on whichever path, every row
\* it moved to Error or Deleted carries the list of allowed values of the
\* status the sheet stores for the row; and handling one row rewrites the list
\* of no other row.
C24_GuardOfStoredStatusAfterRun ==
  [][\A i \in {"batch", "intake"} :
       /\ (pc[i] \in {"work", "catch"} /\ pc'[i] = "idle") =>
            \A r \in Rows :
              (mem[i][r].cur.status \in {ERROR, DELETED}
                 /\ mem[i][r].orig.status # mem[i][r].cur.status)
              => guard'[r] = getAllowedStatusValues(store'[r].status)
       /\ (pc[i] = "work" /\ mem'[i] # mem[i] /\ pc'[i] # "idle") =>
            \A q \in Rows : mem'[i][q] = mem[i][q] => guard'[q] = guard[q]
    ]_vars

\* ------------------------------------------------------------ status diff
\* C27: the status diff reports a change for a project id exactly when the id
\* is in the snapshot and in the current status map with different statuses,
\* once, with the two statuses; ids in one of the two only are not reported.
C27_ChangeIffInBothAndDifferent ==
  (arg.fn = "detectChanges" /\ ret # NotReturned) =>
    LET prev == ret.previousSnapshot
        cur == ret.currentStatuses
        changes == ret.changes
    IN /\ \A id \in ProjectIds :
            (\E n \in 1..Len(changes) : changes[n].projectId = id)
            <=> (MapHas(prev, id) /\ MapHas(cur, id) /\ MapGet(prev, id) # MapGet(cur, id))
       /\ \A n \in 1..Len(changes) :
            /\ changes[n].oldStatus = MapGet(prev, changes[n].projectId)
            /\ changes[n].newStatus = MapGet(cur, changes[n].projectId)
            /\ \A k \in 1..Len(changes) : changes[k].projectId = changes[n].projectId => k = n

\* The example of the specification: P1 went from On Track to Complete and is
\* reported, P2 is new and is not.
C27_OneChangedOneNew ==
  /\ arg.fn = "detectChanges"
  /\ ret # NotReturned
  /\ ret.previousSnapshot = << <<"P1", ON_TRACK>> >>
  /\ ret.currentStatuses = << <<"P1", COMPLETE>>, <<"P2", ON_TRACK>> >>
  /\ ret.changes = << [projectId |-> "P1", oldStatus |-> ON_TRACK, newStatus |-> COMPLETE] >>

\* ------------------------------------------------------------ reminders
\* How many reminders about a project the list of an address holds.
Entries(remindersByAssignee, email, projectId) ==
  LET reminders == IF MapHas(remindersByAssignee, email)
                   THEN MapGet(remindersByAssignee, email) ELSE <<>>
  IN Cardinality({k \in 1..Len(reminders) : reminders[k].projectId = projectId})

\* C29: in a sweep each assignee address of a Created project that is not
\* Complete gets exactly one reminder entry for the project when the days
\* until its due date are among its reminder offsets, and nobody gets an entry
\* for it otherwise.
C29_OneEntryPerAssigneeOnOffsetDay ==
  (arg.fn = "sendReminders" /\ ret # NotReturned) =>
    \A n \in 1..Len(arg.projects) : \A email \in Emails :
      LET project == arg.projects[n]
          offsets == project.reminderOffsets
          assigned == \E k \in 1..Len(project.assignees) :
                        project.assignees[k] = email \/ getEmailByName(project.assignees[k]) = email
          due == /\ project.automationStatus = CREATED
                 /\ project.projectStatus # COMPLETE
                 /\ \E k \in 1..Len(offsets) : offsets[k] = project.dueDate - 0
      IN Entries(ret.remindersByAssignee, email, project.projectId)
           = IF assigned /\ due THEN 1 ELSE 0

\* ------------------------------------------------------------ completed_at
\* Row r's project_status becomes Complete in this step.
BecomesComplete(r) ==
  tracking[r].projectStatus # COMPLETE /\ tracking'[r].projectStatus = COMPLETE

\* C26 as stated: completedAt is written exactly once for a row, when its
\* projectStatus first becomes Complete, and no later status change, away from
\* Complete or back to it, clears or overwrites it.
C26_CompletedAtWrittenOnce ==
  [][\A r \in Rows :
       /\ BecomesComplete(r) /\ tracking[r].completedAt = 0 => tracking'[r].completedAt = now'
       /\ tracking[r].completedAt # 0 => tracking'[r].completedAt = tracking[r].completedAt]_vars

\* C26, amended: completedAt is written each time a row's projectStatus is
\* changed from another value to Complete, with the time of that change, and
\* is left as it is by every other step: a change away from Complete does not
\* clear it, a later change back to Complete overwrites it.
C26_CompletedAtWrittenAtEachCompletion ==
  [][\A r \in Rows :
       IF BecomesComplete(r)
       THEN tracking'[r].completedAt = now' /\ now' # 0
       ELSE tracking'[r].completedAt = tracking[r].completedAt]_vars

\* A row that was Complete and is On Track again, its completed_at still filled.
C26_LeftCompleteKeepsTime ==
  \E r \in Rows : tracking[r].projectStatus = ON_TRACK /\ tracking[r].completedAt # 0

Surfaces == {"spreadsheet", "parent", "root", "projectFolder"}

\* The access an address has to a file or folder.
Access(entity, email) ==
  IF email \in entity.editors THEN "edit" ELSE IF email \in entity.viewers THEN "view" ELSE ""

\* C30: after the permission sync a Directory entry whose Active? flag is No
\* has no access to the main spreadsheet, the root folder, the Project Folders
\* parent or a project folder, whatever its role cells say, and an entry whose
\* flag is blank has on each of them the access it had before (the owner of
\* the files, whom the sync never touches, set aside).
C30_InactiveRevokedBlankUntouched ==
  arg.fn = "refreshAllPermissions" /\ ret # NotReturned =>
    \A k \in 1..Len(arg.accessRows), surface \in Surfaces :
      LET row == arg.accessRows[k]
      IN row.email # arg.ownerEmail =>
           /\ row.activeFlag = "no" => Access(ret[surface], row.email) = ""
           /\ row.activeFlag = "blank" =>
                Access(ret[surface], row.email) = Access(arg.drive[surface], row.email)

\* ------------------------------------------------------------ owner and untracked addresses
\* The addresses the Directory of a sync has a row for.
Tracked(accessRows) == {accessRows[k].email : k \in 1..Len(accessRows)}

\* The owner of the files, or an address without a Directory row, has another
\* access to the surface after the sync than before.
Touched(surface) ==
  {email \in Emails \cup {"own@"} :
     /\ email = arg.ownerEmail \/ email \notin Tracked(arg.accessRows)
     /\ Access(ret[surface], email) # Access(arg.drive[surface], email)}

\* C31 as stated: on the main spreadsheet, the root folder, the Project Folders
\* parent and the project folder alike, the sync leaves the access of the
\* owner and of every address without a Directory row as it was.
C31_OwnerAndUntrackedUntouched ==
  arg.fn = "refreshAllPermissions" /\ ret # NotReturned =>
    \A surface \in Surfaces : Touched(surface) = {}

\* C31, amended: on the main spreadsheet, the root folder and the Project
\* Folders parent the sync leaves the access of the owner and of every address
\* without a Directory row as it was; on a project folder it removes nobody and
\* makes writers of the project's assignees and requester that resolve to an
\* address, whether the Directory has a row for them or not.
C31_OwnerAndUntrackedUntouchedOutsideProjectFolders ==
  arg.fn = "refreshAllPermissions" /\ ret # NotReturned =>
    /\ \A surface \in Surfaces \ {"projectFolder"} : Touched(surface) = {}
    /\ \A email \in Emails \cup {"own@"} :
         Access(ret.projectFolder, email) # Access(arg.drive.projectFolder, email) =>
           /\ Access(ret.projectFolder, email) = "edit"
           /\ email \in Range(resolveAllToEmails(arg.project.assignees
                                                   \o <<arg.project.requestedBy>>))

\* The sync ran for an owner whose Directory row says Active? No and who views
\* the main spreadsheet, and left that access in place; the requester, who has
\* no Directory row, became a writer of the project folder.
C31_OwnerKeptRequesterShared ==
  /\ arg.fn = "refreshAllPermissions" /\ ret # NotReturned
  /\ arg.ownerEmail = "ann@"
  /\ arg.accessRows[1].activeFlag = "no"
  /\ Access(arg.drive.spreadsheet, "ann@") = "view"
  /\ Access(ret.spreadsheet, "ann@") = "view"
  /\ Access(arg.drive.projectFolder, "cat@") = "view"
  /\ Access(ret.projectFolder, "cat@") = "edit"

\* ------------------------------------------------------------ retries
\* C32: a createFolder, makeCopy, createAllDayEvent or sendEmail wrapped in
\* withBackoff creates at most one folder, file copy, calendar event or email,
\* also when an attempt took effect at the provider and a retryable error was
\* reported for it.
C32_RetryCreatesAtMostOne ==
  arg.fn = "withBackoff" /\ ret # NotReturned => ret.created <= 1

\* ------------------------------------------------------------ reminder labels
\* The label of one of the sheet's offset/label pairs.
IsOptionLabel(rangeValues, label) ==
  LET options == getReminderOptions(Codes(rangeValues))
  IN \E i \in 1..Len(options) : options[i].label = label

\* The offset has no label configured in the sheet.
HasNoLabel(rangeValues, offset) ==
  LET codes == Codes(rangeValues)
  IN \A i \in 1..Len(codes.reminderOffsets) :
       codes.reminderOffsets[i] = offset => codes.reminderLabels[i] = ""

\* C33: offsetToLabel(labelToOffset(x)) is x for every label x of an
\* offset/label pair of the Codes sheet, and for an offset without a configured
\* label offsetToLabel returns the generated label, "3 weeks before" for 21.
C33_LabelRoundTrip ==
  /\ arg.fn = "labelToOffset" /\ ret # NotReturned
       /\ IsOptionLabel(arg.rangeValues, arg.label)
     => ret.label = arg.label
  /\ arg.fn = "offsetToLabel" /\ ret # NotReturned
       /\ HasNoLabel(arg.rangeValues, arg.offset)
     => /\ ret.label = buildDefaultReminderLabel(arg.offset)
        /\ arg.offset = 21 => ret.label = "3 weeks before"

\* ------------------------------------------------------------ the "new project" email
\* C34: whatever runs, failures and retries there were, the "new project"
\* email of a row has been sent at most once.
C34_NewProjectEmailAtMostOnce ==
  \A r \in Rows : nMails[r] <= 1

\* Invocation i writes Created into row r, which it loaded as a Ready row.
ReachesCreated(i, r) ==
  /\ pc[i] = "work" /\ pc'[i] = "idle"
  /\ mem[i][r].orig.status = READY
  /\ store[r].status # CREATED
  /\ store'[r].status = CREATED

\* C35: when Ready processing brings a row to Created, the row's "new project"
\* email has been sent, in that run or in an earlier one.
C35_CreatedRowWasMailed ==
  [][\A i \in Invs, r \in Rows : ReachesCreated(i, r) => nMails'[r] >= 1]_vars

\* ------------------------------------------------------------ delete requests
\* C36: a row that a person has set to Delete (Notify) or Delete (Don't Notify)
\* is never Created again.
C36_DeleteRequestNeverCreatedAgain ==
  \A r \in deleteAsked : store[r].status # CREATED

\* ------------------------------------------------------------ edits during a run
\* Invocation i flushes while the automation_status cell of row r no longer
\* holds what i loaded: a person changed it in between.
FlushesOverEdit(i, r) ==
  /\ pc[i] = "work" /\ pc'[i] = "idle"
  /\ mem[i][r].orig.filled
  /\ store[r].status # mem[i][r].orig.status

\* C37: when a person changed the automation_status of a row after an
\* invocation loaded it and before the invocation flushes, the flush leaves the
\* person's value in the cell.  (Of the two cells the claim names the rows kept
\* here carry automation_status.)
C37_FlushKeepsActorsValue ==
  [][\A i \in Invs, r \in Rows : FlushesOverEdit(i, r) => store'[r].status = store[r].status]_vars

\* ------------------------------------------------------------ Created rows
\* C38: a row whose stored automation_status is Created has a project id, a
\* folder id and a calendar event id.
C38_CreatedRowHasIdFolderEvent ==
  \A r \in Rows :
    store[r].filled /\ store[r].status = CREATED
      => store[r].id # NoId /\ store[r].folderId # 0 /\ store[r].eventId # 0

\* ------------------------------------------------------------ the event of a deleted row
\* C39: when a delete request ends with the row Deleted, the calendar no longer
\* has the row's event: the row had none, the calendar had lost it already, or
\* this request deleted it.
C39_DeletedRowHasNoEvent ==
  (arg.fn = "processDeleteRequest" /\ ret # NotReturned /\ ret.row.status = DELETED) =>
    \/ arg.p.eventId = 0
    \/ arg.fault = "absent"
    \/ At(ret.log, "cancel") # 0

====
